---- MODULE Spec2Model ----
(***************************************************************************)
(* CryptoDrawAPI: the off-chain settlement utilities.                      *)
(*   - MerkleTree (src/src/utils/MerkleTree.ts): buildTree, proofs,        *)
(*     verifyProof, hashPair, generateLeafHash                             *)
(*   - NumberPacking (src/src/utils/NumberPacking.ts): pack / unpack /     *)
(*     validate of the two games                                           *)
(*   - RandomnessDerivation (src/src/utils/RandomnessDerivation.ts):       *)
(*     winning numbers from randomness, tier evaluation                    *)
(*   - ConsolidatorService (src/src/services/ConsolidatorService.ts):      *)
(*     eligible tickets, consolidation of a draw, winners and prizes       *)
(*   - DbService (src/unnamed/part_006): eligible tickets of a draw        *)
(*   - EventIndexerService (src/src/services/EventIndexerService.ts):      *)
(*     start, stop, the monitoring loop and its block ranges               *)
(*   - TicketController (src/src/controllers/TicketController.ts): the     *)
(*     validation endpoint                                                 *)
(* Each component is a specification of its own (SpecMerkle, SpecLeaf,     *)
(* SpecCodec, SpecDerive, SpecEval, SpecPrize, SpecStore, SpecJobs,        *)
(* SpecWinners, SpecTree, SpecSettle, SpecIndexer, SpecController) over    *)
(* the variables of the module; a component that is not running keeps its  *)
(* variables at their idle value.                                          *)
(***************************************************************************)
EXTENDS Integers, Sequences, FiniteSets, TLC

VARIABLES
    leaves,     \* MerkleTree.buildTree: the `leaves` argument (ordered leaf hashes)
    built,      \* MerkleTree.buildTree: what the call produced (result or exception)
    mpc,        \* position of the Merkle caller: "input" | "built" | "verified"
    verified,   \* MerkleTree.verifyProof: the last call (index, proof, result)
    ticket,     \* MerkleTree.generateLeafHash: the TicketLeafData argument
    leafOut,    \* MerkleTree.generateLeafHash: what the call hashed and returned
    lpc,        \* position of the leaf hasher: "idle" | "start" | "hashed"
    numbers,    \* NumberPacking: the `numbers` argument (a selection)
    game,       \* NumberPacking: the `game` argument (a GameType tag)
    packed,     \* what packNumbers / toPackedFormat produced (value or exception)
    unpacked,   \* what unpackNumbers produced from the packed value
    cpc,        \* position of the codec caller: "idle" | "start" | "packed" | "unpacked"
    randomness, \* RandomnessDerivation.deriveWinningNumbers: the `randomness` argument
    dgame,      \* RandomnessDerivation.deriveWinningNumbers: the `game` argument
    derived,    \* what deriveWinningNumbers returned (numbers or exception)
    dpc,        \* position of the deriver: "idle" | "start" | "derived"
    ticketNumbers,  \* checkWinning / checkTicketWinning: the ticket's selection
    winningNumbers, \* checkWinning / checkTicketWinning: the winning selection
    egame,      \* checkWinning / checkTicketWinning: the `game` argument
    evalOut,    \* the result of the last evaluator called (and which one)
    epc,        \* position of the evaluator's caller: "idle" | "start" | "checked"
    winnersByTier,  \* calculatePrizeDistribution: the WinnersByTier object it fills
    totalPrizePool, \* calculatePrizeDistribution: the pool, in cents
    pgame,      \* calculatePrizeDistribution: the `game` argument
    ppc,        \* position of the distributor: "idle" | "start" | "distributed"
    now,        \* the wall clock (new Date()), in ticks
    dbTickets,  \* the ticket table behind DbService
    dbDraws,    \* the draw table behind DbService: draw id -> cutoffAt
    query,      \* the last eligibility query: draw, service, ticket ids returned
    jobs,       \* the consolidate-draw jobs: position, draw, tickets, tree
    submissions,\* the calls of submitConsolidation, in order
    calcs,      \* the calls of calculateWinners, in order, with their results
    commitTickets, \* generateMerkleTree: the `tickets` argument
    commitment, \* generateMerkleTree: what the call returned (tree or exception)
    isRunning,  \* EventIndexerService.isRunning
    currentBlock, \* EventIndexerService.currentBlock
    lastBlock,  \* DbService: the persisted last processed block of the network
    latestBlock,\* the chain's latest block (provider.getBlockNumber)
    hasContract,\* the active network has a contract address (provider and contract set)
    starts,     \* calls of startIndexing awaiting getLastProcessedBlock
    loops,      \* the activations of startMonitoringLoop: position and locals
    handledOk,  \* the blocks whose contract event a handler has processed
    body,       \* TicketController.validateTicketNumbers: the request body
    response    \* TicketController.validateTicketNumbers: the response sent

merkleVars == <<leaves, built, mpc, verified>>
leafVars == <<ticket, leafOut, lpc>>
codecVars == <<numbers, game, packed, unpacked, cpc>>
deriveVars == <<randomness, dgame, derived, dpc>>
evalVars == <<ticketNumbers, winningNumbers, egame, evalOut, epc>>
prizeVars == <<winnersByTier, totalPrizePool, pgame, ppc>>
storeVars == <<dbTickets, dbDraws, query>>
engineVars == <<jobs, submissions, calcs>>
utilVars == <<merkleVars, leafVars, codecVars>>
settlementVars == <<deriveVars, evalVars, prizeVars, now, storeVars, engineVars>>
treeVars == <<commitTickets, commitment>>
indexerVars == <<isRunning, currentBlock, lastBlock, latestBlock, hasContract, starts,
                 loops, handledOk>>
controllerVars == <<body, response>>
serviceVars == <<treeVars, indexerVars, controllerVars>>
vars == <<utilVars, settlementVars, serviceVars>>

----------------------------------------------------------------------------
(* Bounds of the model.                                                    *)

\* Longest leaf sequence handed to buildTree.
MaxLeaves == 7
\* Leaf hashes are drawn from 1..MaxLeafValue.
MaxLeafValue == 2
\* Tickets handed to generateLeafHash: ids, owners, rounds and first draws.
MaxTicketId == 3
MaxOwner == 2
MaxRounds == 2
MaxDrawId == 2
\* Selections handed to the codec are built with strides 0..MaxStride.
MaxStride == 6

LeafValues == 1..MaxLeafValue

----------------------------------------------------------------------------
(* Hashing.  A 32-byte digest is modelled by a natural number; the         *)
(* lowercase 0x-hex strings of the program compare (<=) as these numbers   *)
(* do.  keccak256 over the 64-byte concatenation of two digests is         *)
(* modelled as a collision-free function of the ordered pair (Cantor's     *)
(* pairing): keccak256(a ++ b) # keccak256(b ++ a) whenever a # b.         *)

concat(first, second) == <<first, second>>

keccak256(combined) ==
    LET a == combined[1]
        b == combined[2]
    IN  ((a + b) * (a + b + 1)) \div 2 + b

\* hashPair with the ordering step left out (a plausible slip).
hashPairUnsorted(left, right) == keccak256(concat(left, right))

\* MerkleTree.hashPair: order the two digests, concatenate, hash.
hashPair(left, right) ==
    LET first  == IF left <= right THEN left ELSE right
        second == IF left <= right THEN right ELSE left
    IN  keccak256(concat(first, second))

----------------------------------------------------------------------------
(* The simple-hash variant of MerkleTree (the class that follows           *)
(* NumberPacking in src/src/utils/NumberPacking.ts).  A string is the      *)
(* sequence of its UTF-16 code units; a 32-bit integer is kept as two      *)
(* 16-bit halves <<hi, lo>> so that no intermediate value leaves the       *)
(* integers TLC computes with.                                             *)

\* Code unit of the lowercase hex digit d: '0'..'9' then 'a'..'f'.
hexChar(d) == IF d < 10 THEN 48 + d ELSE 87 + d

\* The four hex digits of a 16-bit half, most significant first.
hex4(h) ==
    <<hexChar(h \div 4096), hexChar((h \div 256) % 16),
      hexChar((h \div 16) % 16), hexChar(h % 16)>>

\* '0x' + Math.abs(hash).toString(16).padStart(64, '0') for the unsigned
\* 32-bit value hi * 65536 + lo: 56 zeros and the 8 hex digits.
digestString(hi, lo) ==
    <<48, 120>> \o [i \in 1..56 |-> 48] \o hex4(hi) \o hex4(lo)

\* One round of the loop of simpleHash, hash = ((hash << 5) - hash) + char
\* followed by hash & hash: (31 * hash + char) modulo 2^32.
simpleHashStep(h, char) ==
    LET lo == h[2] * 31 + char
        hi == h[1] * 31 + (lo \div 65536)
    IN  <<hi % 65536, lo % 65536>>

\* The for-loop of simpleHash over the characters from..to, hash being h.
\* (The test on h[1] is always false: it makes TLC compute h before it
\* goes on.)
RECURSIVE simpleHashRange(_, _, _, _)
simpleHashRange(h, input, from, to) ==
    IF from > to \/ h[1] < 0 THEN h
    ELSE simpleHashRange(simpleHashStep(h, input[from]), input, from + 1, to)

\* The whole loop, from character i on, taken 32 characters at a time to
\* keep the evaluation shallow.
RECURSIVE simpleHashLoop(_, _, _)
simpleHashLoop(h, input, i) ==
    IF i > Len(input) \/ h[1] < 0 THEN h
    ELSE LET to == IF i + 31 <= Len(input) THEN i + 31 ELSE Len(input)
         IN  simpleHashLoop(simpleHashRange(h, input, i, to), input, i + 32)

\* Math.abs of the signed reading of the 32-bit value <<hi, lo>>.
abs32(h) ==
    IF h[1] < 32768 THEN h
    ELSE IF h[2] = 0 THEN <<65536 - h[1], 0>>
    ELSE <<65535 - h[1], 65536 - h[2]>>

\* MerkleTree.simpleHash (simple-hash variant).
simpleHash(input) ==
    LET h == abs32(simpleHashLoop(<<0, 0>>, input, 1))
    IN  digestString(h[1], h[2])

\* JavaScript's <= on two strings: by code unit, a proper prefix first.
stringLeq(s, t) ==
    LET n    == IF Len(s) <= Len(t) THEN Len(s) ELSE Len(t)
        diff == {i \in 1..n : s[i] # t[i]}
    IN  IF diff = {} THEN Len(s) <= Len(t)
        ELSE LET k == CHOOSE i \in diff : \A j \in diff : i <= j
             IN  s[k] < t[k]

\* s.startsWith('0x') ? s.slice(2) : s
stripHexPrefix(s) ==
    IF Len(s) >= 2 /\ s[1] = 48 /\ s[2] = 120 THEN SubSeq(s, 3, Len(s)) ELSE s

\* MerkleTree.hashPair (simple-hash variant).
hashPairSimple(left, right) ==
    LET leftClean  == stripHexPrefix(left)
        rightClean == stripHexPrefix(right)
        first  == IF stringLeq(leftClean, rightClean) THEN leftClean ELSE rightClean
        second == IF stringLeq(leftClean, rightClean) THEN rightClean ELSE leftClean
    IN  simpleHash(first \o second)

----------------------------------------------------------------------------
(* MerkleTree.buildTree and its helpers.                                   *)

\* The for-loop of buildTree over one level runs for i = 0, 2, 4, ... below
\* the level's length; in the pair whose right index is past the end,
\* currentLevel[i + 1] is undefined and hashPair throws a TypeError.
levelThrows(currentLevel) ==
    \E k \in 1..((Len(currentLevel) + 1) \div 2) : 2 * k > Len(currentLevel)

nextLevel(currentLevel) ==
    [k \in 1..(Len(currentLevel) \div 2) |->
        hashPair(currentLevel[2 * k - 1], currentLevel[2 * k])]

\* The while-loop of buildTree: push levels until one node remains.
RECURSIVE buildLevels(_)
buildLevels(tree) ==
    LET currentLevel == tree[Len(tree)]
    IN  IF Len(currentLevel) <= 1 THEN [thrown |-> FALSE, tree |-> tree]
        ELSE IF levelThrows(currentLevel) THEN [thrown |-> TRUE, tree |-> tree]
        ELSE buildLevels(Append(tree, nextLevel(currentLevel)))

\* MerkleTree.generateProofForIndex (leafIndex is 0-based, as in the code).
RECURSIVE proofFrom(_, _, _, _)
proofFrom(tree, level, currentIndex, proof) ==
    IF level >= Len(tree) - 1 THEN proof
    ELSE LET currentLevel == tree[level + 1]
             siblingIndex == IF currentIndex % 2 = 0 THEN currentIndex + 1
                             ELSE currentIndex - 1
             pushed == IF siblingIndex < Len(currentLevel)
                       THEN Append(proof, currentLevel[siblingIndex + 1])
                       ELSE proof
         IN  proofFrom(tree, level + 1, currentIndex \div 2, pushed)

generateProofForIndex(tree, leafIndex) == proofFrom(tree, 0, leafIndex, <<>>)

\* MerkleTree.generateProofs: an object keyed by the leaf string, so a leaf
\* value that occurs twice keeps the proof of its last index.
generateProofs(tree, originalLeaves) ==
    [leaf \in {originalLeaves[i] : i \in 1..Len(originalLeaves)} |->
        LET last == CHOOSE i \in 1..Len(originalLeaves) :
                        /\ originalLeaves[i] = leaf
                        /\ \A j \in 1..Len(originalLeaves) :
                               originalLeaves[j] = leaf => j <= i
        IN  generateProofForIndex(tree, last - 1)]

NoResult == [status |-> "none", root |-> 0, tree |-> <<>>, proofs |-> <<>>]

Thrown(kind) == [status |-> kind, root |-> 0, tree |-> <<>>, proofs |-> <<>>]

\* buildTree that forgets to pad an odd leaf count.
buildTreeNoPadding(lvs) ==
    IF Len(lvs) = 0 THEN Thrown("EmptyLeaves")
    ELSE LET levels == buildLevels(<<lvs>>)
         IN  IF levels.thrown THEN Thrown("TypeError")
             ELSE [status |-> "ok",
                   root   |-> levels.tree[Len(levels.tree)][1],
                   tree   |-> levels.tree,
                   proofs |-> generateProofs(levels.tree, lvs)]

\* buildTree that accepts an empty array and returns a tree of no node.
buildTreeOfNothing(lvs) ==
    IF Len(lvs) = 0
    THEN [status |-> "ok", root |-> 0, tree |-> <<>>, proofs |-> <<>>]
    ELSE LET workingLeaves == IF Len(lvs) % 2 = 1
                              THEN Append(lvs, lvs[Len(lvs)])
                              ELSE lvs
             levels == buildLevels(<<workingLeaves>>)
         IN  IF levels.thrown THEN Thrown("TypeError")
             ELSE [status |-> "ok",
                   root   |-> levels.tree[Len(levels.tree)][1],
                   tree   |-> levels.tree,
                   proofs |-> generateProofs(levels.tree, lvs)]

\* MerkleTree.buildTree.  status "EmptyLeaves" is the Error thrown for an
\* empty array, "TypeError" the exception raised inside hashPair.
buildTree(lvs) ==
    IF Len(lvs) = 0 THEN Thrown("EmptyLeaves")
    ELSE LET workingLeaves == IF Len(lvs) % 2 = 1
                              THEN Append(lvs, lvs[Len(lvs)])
                              ELSE lvs
             levels == buildLevels(<<workingLeaves>>)
         IN  IF levels.thrown THEN Thrown("TypeError")
             ELSE [status |-> "ok",
                   root   |-> levels.tree[Len(levels.tree)][1],
                   tree   |-> levels.tree,
                   proofs |-> generateProofs(levels.tree, lvs)]

\* MerkleTree.verifyProof: fold the proof over the running hash.
RECURSIVE foldProof(_, _, _)
foldProof(currentHash, proof, k) ==
    IF k > Len(proof) THEN currentHash
    ELSE LET proofElement == proof[k]
         IN  IF currentHash <= proofElement
             THEN foldProof(hashPair(currentHash, proofElement), proof, k + 1)
             ELSE foldProof(hashPair(proofElement, currentHash), proof, k + 1)

verifyProof(leaf, proof, root) ==
    IF Len(proof) = 0 THEN leaf = root
    ELSE foldProof(leaf, proof, 1) = root

----------------------------------------------------------------------------
(* MerkleTree.generateLeafHash.  Byte strings are sequences of 0..255.     *)
(* The integers of the model are below 2^31, so every byte of a word above *)
(* its low four is zero.                                                   *)

\* Byte k (0 = least significant) of a non-negative integer.
byteAt(value, k) == IF k >= 4 THEN 0 ELSE (value \div (256 ^ k)) % 256

\* A uintN of abi.encodePacked: the value in width = N / 8 bytes, big-endian.
packUint(value, width) == [i \in 1..width |-> byteAt(value, width - i)]

\* ethers.solidityPacked(['uint256', 'address', 'uint8', 'uint256',
\* 'uint256', 'uint256'], ...): each value in the width of its type, with no
\* padding between them; an address is its 20 bytes.
solidityPacked(t) ==
    packUint(t.ticketId, 32) \o t.owner \o packUint(t.game, 1) \o
    packUint(t.numbersPacked, 32) \o packUint(t.roundsBought, 32) \o
    packUint(t.firstDrawId, 32)

\* abi.encode instead of abi.encodePacked: every value in a 32-byte slot.
solidityPadded(t) ==
    packUint(t.ticketId, 32) \o [i \in 1..12 |-> 0] \o t.owner \o
    packUint(t.game, 32) \o
    packUint(t.numbersPacked, 32) \o packUint(t.roundsBought, 32) \o
    packUint(t.firstDrawId, 32)

\* keccak256 of a byte string: a digest that stands for its preimage
\* (collision-free).
keccak256Bytes(bytes) == <<"keccak256", bytes>>

\* generateLeafHash hashing the abi.encode layout.
generateLeafHashPadded(t) ==
    [variant |-> "keccak", preimage |-> solidityPadded(t),
     hash |-> keccak256Bytes(solidityPadded(t))]

\* MerkleTree.generateLeafHash (src/src/utils/MerkleTree.ts).
generateLeafHash(t) ==
    [variant |-> "keccak", preimage |-> solidityPacked(t),
     hash |-> keccak256Bytes(solidityPacked(t))]

\* Number.prototype.toString(16) of a non-negative integer.
RECURSIVE toHex(_)
toHex(n) == IF n < 16 THEN <<hexChar(n)>> ELSE Append(toHex(n \div 16), hexChar(n % 16))

\* String.prototype.padStart(targetLength, '0').
padStart(str, targetLength) ==
    IF Len(str) >= targetLength THEN str
    ELSE [i \in 1..(targetLength - Len(str)) |-> 48] \o str

\* The owner string of a ticket, '0x' and 40 hex digits, with the prefix
\* sliced off and lowercased.
ownerHex(owner) ==
    [i \in 1..(2 * Len(owner)) |->
        IF i % 2 = 1 THEN hexChar(owner[(i + 1) \div 2] \div 16)
        ELSE hexChar(owner[i \div 2] % 16)]

\* MerkleTree.generateLeafHash (simple-hash variant): the hashed string.
packedHex(t) ==
    padStart(toHex(t.ticketId), 64) \o ownerHex(t.owner) \o
    padStart(toHex(t.game), 64) \o padStart(toHex(t.numbersPacked), 64) \o
    padStart(toHex(t.roundsBought), 64) \o padStart(toHex(t.firstDrawId), 64)

\* MerkleTree.generateLeafHash (simple-hash variant).
generateLeafHashSimple(t) ==
    [variant |-> "simple", preimage |-> packedHex(t), hash |-> simpleHash(packedHex(t))]

----------------------------------------------------------------------------
(* 32-bit integer operators of JavaScript (|, &, <<, >>) on the signed     *)
(* 32-bit integers -2^31 .. 2^31 - 1.                                      *)

\* The low 31 bits of x in two's complement.
low31(x) == IF x >= 0 THEN x ELSE (x + 2147483647) + 1

\* Bit i (0..31) of x in two's complement.
bit(x, i) == IF i = 31 THEN (IF x < 0 THEN 1 ELSE 0) ELSE (low31(x) \div (2 ^ i)) % 2

RECURSIVE sumBits(_, _)
sumBits(b, i) == IF i > 30 THEN 0 ELSE b[i] * (2 ^ i) + sumBits(b, i + 1)

\* The signed integer with bits b[0] .. b[31].
fromBits(b) == IF b[31] = 1 THEN (sumBits(b, 0) - 2147483647) - 1 ELSE sumBits(b, 0)

\* a | b
bitOr(a, b) == fromBits([i \in 0..31 |-> IF bit(a, i) = 1 \/ bit(b, i) = 1 THEN 1 ELSE 0])

\* a & b
bitAnd(a, b) == fromBits([i \in 0..31 |-> IF bit(a, i) = 1 /\ bit(b, i) = 1 THEN 1 ELSE 0])

\* a << n: the shift count is taken modulo 32.
shiftLeft(a, n) ==
    LET c == n % 32
    IN  fromBits([i \in 0..31 |-> IF i >= c THEN bit(a, i - c) ELSE 0])

\* a >> n: sign-propagating, the shift count taken modulo 32.
shiftRight(a, n) ==
    LET c == n % 32
    IN  fromBits([i \in 0..31 |-> IF i + c <= 31 THEN bit(a, i + c) ELSE bit(a, 31)])

----------------------------------------------------------------------------
(* NumberPacking (src/src/utils/NumberPacking.ts) and the pack helpers of  *)
(* RandomnessDerivation.                                                   *)

\* enum GameType
LOTOFACIL == 0
SUPERSETE == 1

Returned(v) == [ok |-> TRUE, value |-> v, error |-> ""]
Raised(msg) == [ok |-> FALSE, value |-> 0, error |-> msg]

\* new Set(numbers).size
setSize(nums) == Cardinality({nums[i] : i \in 1..Len(nums)})

\* validateLotofasilNumbers without the duplicate test.
validateLotofasilNoDuplicateTest(nums) ==
    IF Len(nums) # 15 THEN FALSE
    ELSE IF \E i \in 1..Len(nums) : nums[i] < 1 \/ nums[i] > 25 THEN FALSE
    ELSE TRUE

\* NumberPacking.validateLotofasilNumbers (the elements are integers).
validateLotofasilNumbers(nums) ==
    IF Len(nums) # 15 THEN FALSE
    ELSE IF \E i \in 1..Len(nums) : nums[i] < 1 \/ nums[i] > 25 THEN FALSE
    ELSE IF setSize(nums) # Len(nums) THEN FALSE
    ELSE TRUE

\* NumberPacking.validateSuperseteNumbers.
validateSuperseteNumbers(columns) ==
    IF Len(columns) # 7 THEN FALSE
    ELSE IF \E i \in 1..Len(columns) : columns[i] < 0 \/ columns[i] > 9 THEN FALSE
    ELSE TRUE

\* NumberPacking.validateNumbers.
validateNumbers(nums, g) ==
    IF g = LOTOFACIL THEN validateLotofasilNumbers(nums)
    ELSE IF g = SUPERSETE THEN validateSuperseteNumbers(nums)
    ELSE FALSE

\* for (const num of numbers) packed |= (1 << (num - 1)), from element i on
\* (the test on acc keeps the evaluation shallow).
RECURSIVE orBits(_, _, _)
orBits(acc, nums, i) ==
    IF i > Len(nums) \/ acc \notin Int THEN acc
    ELSE orBits(bitOr(acc, shiftLeft(1, nums[i] - 1)), nums, i + 1)

\* The same loop setting bit num instead of bit num - 1.
RECURSIVE orBitsOffByOne(_, _, _)
orBitsOffByOne(acc, nums, i) ==
    IF i > Len(nums) \/ acc \notin Int THEN acc
    ELSE orBitsOffByOne(bitOr(acc, shiftLeft(1, nums[i])), nums, i + 1)

\* packLotofacil setting bit num for number num.
packLotofacilOffByOne(nums) ==
    IF ~validateLotofasilNumbers(nums) THEN Raised("Invalid Lotofacil numbers")
    ELSE Returned(orBitsOffByOne(0, nums, 1))

\* NumberPacking.packLotofacil.
packLotofacil(nums) ==
    IF ~validateLotofasilNumbers(nums) THEN Raised("Invalid Lotofacil numbers")
    ELSE Returned(orBits(0, nums, 1))

\* packed & (1 << i) for i = from .. below - 1, pushing i + 1 when set.
RECURSIVE setBits(_, _, _)
setBits(p, from, below) ==
    IF from >= below THEN <<>>
    ELSE (IF bitAnd(p, shiftLeft(1, from)) # 0 THEN <<from + 1>> ELSE <<>>)
             \o setBits(p, from + 1, below)

\* Array.prototype.sort((a, b) => a - b): insertion of each element in turn.
RECURSIVE insertSorted(_, _)
insertSorted(sorted, x) ==
    IF sorted = <<>> THEN <<x>>
    ELSE IF x < Head(sorted) THEN <<x>> \o sorted
    ELSE <<Head(sorted)>> \o insertSorted(Tail(sorted), x)

RECURSIVE sortAscending(_)
sortAscending(nums) ==
    IF nums = <<>> THEN <<>>
    ELSE insertSorted(sortAscending(SubSeq(nums, 1, Len(nums) - 1)), nums[Len(nums)])

\* unpackLotofacil looking at bits 0..23 only.
unpackLotofacilShort(p) == sortAscending(setBits(p, 0, 24))

\* NumberPacking.unpackLotofacil.
unpackLotofacil(p) == sortAscending(setBits(p, 0, 25))

\* for (i = 0; i < count; i++) packed |= (columns[i] << (i * 4)), from i on
\* (the test on acc keeps the evaluation shallow).
RECURSIVE orNibbles(_, _, _, _)
orNibbles(acc, columns, i, count) ==
    IF i >= count \/ acc \notin Int THEN acc
    ELSE orNibbles(bitOr(acc, shiftLeft(columns[i + 1], i * 4)), columns, i + 1, count)

\* NumberPacking.packSupersete.
packSupersete(columns) ==
    IF ~validateSuperseteNumbers(columns) THEN Raised("Invalid SuperSete numbers")
    ELSE Returned(orNibbles(0, columns, 0, 7))

\* NumberPacking.unpackSupersete.
unpackSupersete(p) == [i \in 1..7 |-> bitAnd(shiftRight(p, (i - 1) * 4), 15)]

\* NumberPacking.packNumbers.
packNumbers(nums, g) ==
    IF g = LOTOFACIL THEN packLotofacil(nums)
    ELSE IF g = SUPERSETE THEN packSupersete(nums)
    ELSE Raised("Unsupported game type")

\* NumberPacking.unpackNumbers.
unpackNumbers(p, g) ==
    IF g = LOTOFACIL THEN Returned(unpackLotofacil(p))
    ELSE IF g = SUPERSETE THEN Returned(unpackSupersete(p))
    ELSE Raised("Unsupported game type")

\* RandomnessDerivation.packLotofacilNumbers: no validation.
packLotofacilNumbers(nums) == orBits(0, nums, 1)

\* RandomnessDerivation.packSuperseteNumbers: no validation, every digit.
packSuperseteNumbers(digits) == orNibbles(0, digits, 0, Len(digits))

\* RandomnessDerivation.toPackedFormat.
toPackedFormat(nums, g) ==
    IF g = LOTOFACIL THEN Returned(packLotofacilNumbers(nums))
    ELSE IF g = SUPERSETE THEN Returned(packSuperseteNumbers(nums))
    ELSE Raised("Unsupported game type")

----------------------------------------------------------------------------
(* The Merkle caller: collect leaves, build the tree, verify a proof.      *)

NoVerification == [index |-> 0, proof |-> <<>>, result |-> FALSE]

\* The idle values of the components.
MerkleIdle ==
    /\ leaves = <<>>
    /\ built = NoResult
    /\ mpc = "idle"
    /\ verified = NoVerification

NoTicket ==
    [ticketId |-> 0, owner |-> <<>>, game |-> 0, numbersPacked |-> 0,
     roundsBought |-> 0, firstDrawId |-> 0]

NoLeaf == [variant |-> "none", preimage |-> <<>>, hash |-> <<>>]

LeafIdle ==
    /\ ticket = NoTicket
    /\ leafOut = NoLeaf
    /\ lpc = "idle"

NoPacked == [via |-> "none", ok |-> FALSE, value |-> 0, error |-> ""]

NoUnpacked == [ok |-> FALSE, value |-> <<>>, error |-> ""]

CodecIdle ==
    /\ numbers = <<>>
    /\ game = 0
    /\ packed = NoPacked
    /\ unpacked = NoUnpacked
    /\ cpc = "idle"

NoDerived == [ok |-> FALSE, value |-> <<>>, error |-> ""]

DeriveIdle ==
    /\ randomness = <<>>
    /\ dgame = 0
    /\ derived = NoDerived
    /\ dpc = "idle"

NoEvaluation == [by |-> "none", isWinner |-> FALSE, matchCount |-> 0, tier |-> 0]

EvalIdle ==
    /\ ticketNumbers = <<>>
    /\ winningNumbers = <<>>
    /\ egame = 0
    /\ evalOut = NoEvaluation
    /\ epc = "idle"

PrizeIdle ==
    /\ winnersByTier = <<>>
    /\ totalPrizePool = 0
    /\ pgame = 0
    /\ ppc = "idle"

NoQuery == [drawId |-> 0, by |-> "none", ids |-> {}]

StoreIdle ==
    /\ dbTickets = {}
    /\ dbDraws = <<>>
    /\ query = NoQuery

EngineIdle ==
    /\ jobs = <<>>
    /\ submissions = <<>>
    /\ calcs = <<>>

NoTree == [ok |-> FALSE, root |-> 0, leaves |-> <<>>, proofs |-> <<>>, error |-> ""]

TreeIdle ==
    /\ commitTickets = <<>>
    /\ commitment = NoTree

IndexerIdle ==
    /\ isRunning = FALSE
    /\ currentBlock = 0
    /\ lastBlock = 0
    /\ latestBlock = 0
    /\ hasContract = FALSE
    /\ starts = 0
    /\ loops = <<>>
    /\ handledOk = {}

NoBody == [hasNumbers |-> FALSE, numbers |-> <<>>, game |-> 0]

NoResponse == [status |-> 0]

ControllerIdle ==
    /\ body = NoBody
    /\ response = NoResponse

ServiceIdle == TreeIdle /\ IndexerIdle /\ ControllerIdle

UtilIdle == MerkleIdle /\ LeafIdle /\ CodecIdle

SettlementIdle ==
    /\ DeriveIdle
    /\ EvalIdle
    /\ PrizeIdle
    /\ now = 0
    /\ StoreIdle
    /\ EngineIdle

InitMerkle ==
    /\ leaves = <<>>
    /\ built = NoResult
    /\ mpc = "input"
    /\ verified = NoVerification
    /\ LeafIdle
    /\ CodecIdle
    /\ SettlementIdle
    /\ ServiceIdle

AddLeaf(h) ==
    /\ mpc = "input"
    /\ Len(leaves) < MaxLeaves
    /\ leaves' = Append(leaves, h)
    /\ UNCHANGED <<built, mpc, verified>>
    /\ UNCHANGED <<leafVars, codecVars, settlementVars, serviceVars>>

BuildTree ==
    /\ mpc = "input"
    /\ built' = buildTree(leaves)
    /\ mpc' = "built"
    /\ UNCHANGED <<leaves, verified>>
    /\ UNCHANGED <<leafVars, codecVars, settlementVars, serviceVars>>

\* verifyProof(leaves[i], proofs[leaves[i]], root) on a built tree.
VerifyProof(i) ==
    /\ mpc = "built"
    /\ built.status = "ok"
    /\ i \in 1..Len(leaves)
    /\ verified' = [index  |-> i,
                    proof  |-> built.proofs[leaves[i]],
                    result |-> verifyProof(leaves[i], built.proofs[leaves[i]], built.root)]
    /\ mpc' = "verified"
    /\ UNCHANGED <<leaves, built>>
    /\ UNCHANGED <<leafVars, codecVars, settlementVars, serviceVars>>

NextMerkle ==
    \/ \E h \in LeafValues : AddLeaf(h)
    \/ BuildTree
    \/ \E i \in 1..MaxLeaves : VerifyProof(i)

SpecMerkle == InitMerkle /\ [][NextMerkle]_vars

----------------------------------------------------------------------------
(* The leaf hasher: one ticket, hashed by either variant.                  *)

\* Ticket ids with two different non-zero bytes (0x0102, 0x0204, ...).
TicketIds == {258 * k : k \in 1..MaxTicketId}

\* 20-byte addresses, every byte non-zero and the first unlike the last.
Owners == {[i \in 1..20 |-> 16 * k + i] : k \in 1..MaxOwner}

\* Packed selections: numbers 1..15 and numbers 11..25 of the first game.
PackedSamples == {32767, 33553408}

TicketLeafDatas ==
    [ticketId : TicketIds, owner : Owners, game : {0, 1},
     numbersPacked : PackedSamples, roundsBought : 1..MaxRounds,
     firstDrawId : 1..MaxDrawId]

InitLeaf ==
    /\ ticket \in TicketLeafDatas
    /\ leafOut = NoLeaf
    /\ lpc = "start"
    /\ MerkleIdle
    /\ CodecIdle
    /\ SettlementIdle
    /\ ServiceIdle

GenerateLeafHash ==
    /\ lpc = "start"
    /\ leafOut' = generateLeafHash(ticket)
    /\ lpc' = "hashed"
    /\ UNCHANGED ticket
    /\ UNCHANGED <<merkleVars, codecVars, settlementVars, serviceVars>>

GenerateLeafHashSimple ==
    /\ lpc = "start"
    /\ leafOut' = generateLeafHashSimple(ticket)
    /\ lpc' = "hashed"
    /\ UNCHANGED ticket
    /\ UNCHANGED <<merkleVars, codecVars, settlementVars, serviceVars>>

NextLeaf ==
    \/ GenerateLeafHash
    \/ GenerateLeafHashSimple

SpecLeaf == InitLeaf /\ [][NextLeaf]_vars

----------------------------------------------------------------------------
(* The codec caller: one selection and one game tag; pack it, unpack it.   *)

\* Fifteen numbers 1..25 in steps of a from c: distinct unless a is 0 or a
\* multiple of 5, and in scrambled order.
lotofacilSample(a, c) == [i \in 1..15 |-> ((a * i + c) % 25) + 1]

\* Seven digits 0..9 in steps of a from c.
superseteSample(a, c) == [i \in 1..7 |-> (a * i + c) % 10]

\* A selection with element p replaced by v.
replaced(sel, p, v) == [sel EXCEPT ![p] = v]

\* The variations of a selection: itself, one element replaced by a value on
\* or over the edge of the range, its last element dropped, one appended.
variations(sel, positions, values) ==
    {sel, SubSeq(sel, 1, Len(sel) - 1), Append(sel, sel[1] + 1)} \cup
    {replaced(sel, p, v) : p \in positions, v \in values}

LotofacilInputs ==
    UNION {variations(lotofacilSample(a, c), {1, 8, 15}, {0, 1, 25, 26}) :
              a \in 0..MaxStride, c \in {0, 6, 12, 18, 24}}

SuperseteInputs ==
    UNION {variations(superseteSample(a, c), {1, 4, 7}, {-1, 0, 9, 10, 16}) :
              a \in 0..MaxStride, c \in {0, 3, 6, 9}}

\* The two games and one tag that is not a game.
GameTags == {LOTOFACIL, SUPERSETE, 2}

InitCodec ==
    /\ numbers \in LotofacilInputs \cup SuperseteInputs
    /\ game \in GameTags
    /\ packed = NoPacked
    /\ unpacked = NoUnpacked
    /\ cpc = "start"
    /\ MerkleIdle
    /\ LeafIdle
    /\ SettlementIdle
    /\ ServiceIdle

PackNumbers ==
    /\ cpc = "start"
    /\ packed' = [via |-> "packNumbers"] @@ packNumbers(numbers, game)
    /\ cpc' = "packed"
    /\ UNCHANGED <<numbers, game, unpacked>>
    /\ UNCHANGED <<merkleVars, leafVars, settlementVars, serviceVars>>

ToPackedFormat ==
    /\ cpc = "start"
    /\ packed' = [via |-> "toPackedFormat"] @@ toPackedFormat(numbers, game)
    /\ cpc' = "packed"
    /\ UNCHANGED <<numbers, game, unpacked>>
    /\ UNCHANGED <<merkleVars, leafVars, settlementVars, serviceVars>>

UnpackNumbers ==
    /\ cpc = "packed"
    /\ packed.ok
    /\ unpacked' = unpackNumbers(packed.value, game)
    /\ cpc' = "unpacked"
    /\ UNCHANGED <<numbers, game, packed>>
    /\ UNCHANGED <<merkleVars, leafVars, settlementVars, serviceVars>>

NextCodec ==
    \/ PackNumbers
    \/ ToPackedFormat
    \/ UnpackNumbers

SpecCodec == InitCodec /\ [][NextCodec]_vars

----------------------------------------------------------------------------
(* MerkleCommitment: properties.                                           *)

Built == mpc # "input"

\* Smallest k with 2^k >= n.
CeilLog2(n) == CHOOSE k \in 0..n : 2 ^ k >= n /\ \A j \in 0..(k - 1) : 2 ^ j < n

\* The digests buildTree (or a verifier) hands to hashPair: the leaves and
\* every node below the root.
PairedNodes ==
    {leaves[i] : i \in 1..Len(leaves)} \cup
    UNION {{built.tree[l][k] : k \in 1..Len(built.tree[l])} :
              l \in 1..(Len(built.tree) - 1)}

\* C1: for every non-empty leaf sequence and every index i, buildTree
\* returns a root and a proof for leaf i that verifyProof accepts.
C1_EveryLeafProofVerifies ==
    (Built /\ Len(leaves) >= 1) =>
        /\ built.status = "ok"
        /\ \A i \in 1..Len(leaves) :
               verifyProof(leaves[i], built.proofs[leaves[i]], built.root)

\* C2: a tree built from exactly one leaf has that leaf as its root, the
\* empty proof for it, and verifyProof(leaf, <<>>, root) is true.
C2_SingleLeafRootIsLeaf ==
    (Built /\ Len(leaves) = 1) =>
        /\ built.status = "ok"
        /\ built.root = leaves[1]
        /\ built.proofs[leaves[1]] = <<>>
        /\ verifyProof(leaves[1], <<>>, built.root)

\* C3: for an odd leaf count, buildTree(leaves) gives the same outcome, the
\* same root and the same levels as buildTree(leaves ++ <<last leaf>>); the
\* duplicate appears once, in level 0 only (every higher level is exactly
\* half of the one below it).
C3_OddCountEqualsDuplicatedLast ==
    (Built /\ Len(leaves) % 2 = 1) =>
        LET padded == Append(leaves, leaves[Len(leaves)])
            other  == buildTree(padded)
        IN  /\ built.status = other.status
            /\ built.root = other.root
            /\ built.tree = other.tree
            /\ built.status = "ok" =>
                   /\ built.tree[1] = padded
                   /\ \A l \in 2..Len(built.tree) :
                          2 * Len(built.tree[l]) = Len(built.tree[l - 1])

\* C3 witness: a tree was built from three leaves, the last one duplicated.
C3_Witness ==
    /\ Built
    /\ Len(leaves) = 3
    /\ built.status = "ok"
    /\ Len(built.tree[1]) = 4
    /\ leaves[1] # leaves[3]

\* C4: buildTree completes and returns a single root for every non-empty
\* leaf sequence, whatever its length.
C4_BuildCompletesForEveryLength ==
    (Built /\ Len(leaves) >= 1) =>
        /\ built.status = "ok"
        /\ Len(built.tree[Len(built.tree)]) = 1

\* C5: a tree returned for n >= 1 leaves has ceil(log2(n)) + 1 levels and
\* its top level holds exactly the returned root.
C5_LevelCount ==
    (Built /\ built.status = "ok") =>
        /\ Len(built.tree) = CeilLog2(Len(leaves)) + 1
        /\ built.tree[Len(built.tree)] = <<built.root>>

\* The digest strings the simple-hash variant produces for the leaves of the
\* state: the rendering of each leaf value, and the hash of each with itself.
SimpleDigests ==
    LET plain == {digestString(0, leaves[i]) : i \in 1..Len(leaves)}
    IN  plain \cup {hashPairSimple(d, d) : d \in plain}

\* C6: hashPair(a, b) = hashPair(b, a) for any two digests the program
\* pairs, although the hash of a concatenation depends on its order; the
\* same holds of the hashPair of the simple-hash variant.
C6_HashPairSymmetric ==
    /\ \A a \in PairedNodes : \A b \in PairedNodes :
           hashPair(a, b) = hashPair(b, a)
    /\ (mpc = "built" /\ Len(leaves) = 2) =>
           \A a \in SimpleDigests : \A b \in SimpleDigests :
               hashPairSimple(a, b) = hashPairSimple(b, a)

\* C6 witness: two different digests were paired, in both variants, and
\* hashing their concatenation in the other order gives another digest.
C6_Witness ==
    /\ mpc = "built"
    /\ built.status = "ok"
    /\ Len(leaves) = 2
    /\ \E a \in PairedNodes : \E b \in PairedNodes :
           /\ a # b
           /\ keccak256(concat(a, b)) # keccak256(concat(b, a))
           /\ hashPair(a, b) = built.root
    /\ \E a \in SimpleDigests : \E b \in SimpleDigests :
           /\ a # b
           /\ simpleHash(stripHexPrefix(a) \o stripHexPrefix(b))
                  # simpleHash(stripHexPrefix(b) \o stripHexPrefix(a))

----------------------------------------------------------------------------
(* LeafHasher: properties.                                                 *)

\* Value of a hex digit character.
nibble(c) == IF c <= 57 THEN c - 48 ELSE c - 87

\* The bytes a hex string spells.
bytesOfHex(str) ==
    [i \in 1..(Len(str) \div 2) |-> 16 * nibble(str[2 * i - 1]) + nibble(str[2 * i])]

\* The bytes that were hashed: the packed bytes, or the bytes the hashed hex
\* string spells.
PreimageBytes ==
    IF leafOut.variant = "simple" THEN bytesOfHex(leafOut.preimage)
    ELSE leafOut.preimage

\* The big-endian reading of a byte string; -1 when it is 2^31 or more.
wordValue(b) ==
    LET n == Len(b)
        at(k) == IF k < n THEN b[n - k] ELSE 0
    IN  IF (\E i \in 1..(n - 4) : b[i] # 0) \/ at(3) >= 128 THEN -1
        ELSE at(0) + 256 * at(1) + 65536 * at(2) + 16777216 * at(3)

\* Slot k (1..6) of a preimage cut into 32-byte slots.
slot(b, k) == SubSeq(b, 32 * k - 31, 32 * k)

\* C7 as stated: the preimage is six 32-byte slots in the order (ticketId,
\* owner, game, packedSelection, roundsBought, firstDrawId), each field a
\* big-endian word, the owner in the low 20 bytes of its slot: 192 bytes.
C7_SixSlotsOf32Bytes ==
    lpc = "hashed" =>
        LET b == PreimageBytes
        IN  /\ Len(b) = 192
            /\ wordValue(slot(b, 1)) = ticket.ticketId
            /\ slot(b, 2) = [i \in 1..12 |-> 0] \o ticket.owner
            /\ wordValue(slot(b, 3)) = ticket.game
            /\ wordValue(slot(b, 4)) = ticket.numbersPacked
            /\ wordValue(slot(b, 5)) = ticket.roundsBought
            /\ wordValue(slot(b, 6)) = ticket.firstDrawId

\* C7 amended: the preimage is the fields in that order with no alignment:
\* ticketId, packedSelection, roundsBought and firstDrawId are 32-byte
\* big-endian words, the owner is its 20 bytes unpadded, and game is one
\* byte (149 bytes); in the simple-hash variant game is a 32-byte word too
\* and the hashed string is the hex rendering of those 180 bytes.
C7_PackedLayout ==
    lpc = "hashed" =>
        LET b == PreimageBytes
            g == IF leafOut.variant = "simple" THEN 32 ELSE 1
        IN  /\ Len(b) = 32 + 20 + g + 32 + 32 + 32
            /\ g = 1 => Len(b) = 149
            /\ g = 32 => Len(b) = 180 /\ Len(leafOut.preimage) = 360
            /\ wordValue(SubSeq(b, 1, 32)) = ticket.ticketId
            /\ SubSeq(b, 33, 52) = ticket.owner
            /\ wordValue(SubSeq(b, 53, 52 + g)) = ticket.game
            /\ wordValue(SubSeq(b, 53 + g, 84 + g)) = ticket.numbersPacked
            /\ wordValue(SubSeq(b, 85 + g, 116 + g)) = ticket.roundsBought
            /\ wordValue(SubSeq(b, 117 + g, 148 + g)) = ticket.firstDrawId

\* C7 witness: a ticket of the second game was hashed by generateLeafHash,
\* and the byte after the ticketId word is the first byte of the owner.
C7_Witness ==
    /\ lpc = "hashed"
    /\ leafOut.variant = "keccak"
    /\ ticket.game = 1
    /\ leafOut.preimage[33] = ticket.owner[1]
    /\ leafOut.preimage[33] # 0
    /\ leafOut.hash = keccak256Bytes(leafOut.preimage)

----------------------------------------------------------------------------
(* NumberCodec: properties.                                                *)

elements(sel) == {sel[i] : i \in 1..Len(sel)}

\* The Selection invariants of the two games, as the data model states them.
ValidFixedChoice(sel) ==
    /\ Len(sel) = 15
    /\ \A i \in 1..Len(sel) : sel[i] \in 1..25
    /\ \A i \in 1..Len(sel) : \A j \in 1..Len(sel) : i # j => sel[i] # sel[j]

ValidPositionalDigits(sel) ==
    /\ Len(sel) = 7
    /\ \A i \in 1..Len(sel) : sel[i] \in 0..9

\* The members of a set of integers in ascending order.
ascending(S) ==
    [i \in 1..Cardinality(S) |->
        CHOOSE x \in S : Cardinality({y \in S : y < x}) = i - 1]

PackedByCodec == cpc # "start" /\ packed.via = "packNumbers"

\* C8: unpackNumbers(packNumbers(s, game), game) is the canonical form of
\* s: s sorted ascending for FixedChoice (Lotofacil), s itself, in its
\* order, for PositionalDigits (SuperSete).
C8_RoundTripIsCanonicalForm ==
    (cpc = "unpacked" /\ packed.via = "packNumbers") =>
        /\ unpacked.ok
        /\ game = LOTOFACIL => unpacked.value = ascending(elements(numbers))
        /\ game = SUPERSETE => unpacked.value = numbers
        /\ Len(unpacked.value) = Len(numbers)

\* C8 witness: a FixedChoice selection that holds 25 and is not in ascending
\* order was packed and unpacked.
C8_Witness ==
    /\ cpc = "unpacked"
    /\ packed.via = "packNumbers"
    /\ game = LOTOFACIL
    /\ 25 \in elements(numbers)
    /\ numbers # ascending(elements(numbers))
    /\ unpacked.value # numbers

\* C9: packNumbers fails exactly when the selection is invalid: for
\* FixedChoice not exactly 15 elements, an element outside 1..25 or a
\* duplicate; for PositionalDigits not exactly 7 elements or an element
\* outside 0..9.  On every other selection it returns a value.
C9_PackFailsIffInvalid ==
    (PackedByCodec /\ game \in {LOTOFACIL, SUPERSETE}) =>
        /\ game = LOTOFACIL => (~packed.ok <=> ~ValidFixedChoice(numbers))
        /\ game = SUPERSETE => (~packed.ok <=> ~ValidPositionalDigits(numbers))
        /\ packed.ok <=> validateNumbers(numbers, game)

\* C9 witness: packNumbers refused fifteen numbers, all in 1..25, because
\* one of them occurs twice.
C9_Witness ==
    /\ PackedByCodec
    /\ game = LOTOFACIL
    /\ ~packed.ok
    /\ Len(numbers) = 15
    /\ \A i \in 1..Len(numbers) : numbers[i] \in 1..25
    /\ Cardinality(elements(numbers)) = 14

\* C10: for a valid FixedChoice selection the packed value (of packNumbers
\* and of toPackedFormat) has bit n - 1 set iff n is chosen, n in 1..25;
\* exactly 15 bits are set and none at position 25 or above.
C10_BitmaskOfChosenNumbers ==
    (cpc # "start" /\ game = LOTOFACIL /\ ValidFixedChoice(numbers)) =>
        /\ packed.ok
        /\ \A n \in 1..25 : bit(packed.value, n - 1) = 1 <=> n \in elements(numbers)
        /\ Cardinality({i \in 0..31 : bit(packed.value, i) = 1}) = 15
        /\ \A i \in 25..31 : bit(packed.value, i) = 0

\* C10 witness: packNumbers packed a valid selection that holds both 1 and
\* 25, so bits 0 and 24 are set.
C10_Witness ==
    /\ PackedByCodec
    /\ game = LOTOFACIL
    /\ ValidFixedChoice(numbers)
    /\ {1, 25} \subseteq elements(numbers)
    /\ packed.ok
    /\ bit(packed.value, 0) = 1
    /\ bit(packed.value, 24) = 1

----------------------------------------------------------------------------
(* RandomnessDerivation (src/src/utils/RandomnessDerivation.ts): winning   *)
(* numbers from a randomness string.  A string is the sequence of its      *)
(* characters.                                                             *)

\* Longest pattern of characters a randomness value repeats.
MaxPatternLen == 2
\* Most repetitions of the pattern in a randomness value.
MaxRepeat == 16

\* The number value NaN, kept apart from every number the code computes.
NaN == -4096

hexDigits == <<"0", "1", "2", "3", "4", "5", "6", "7", "8", "9",
               "a", "b", "c", "d", "e", "f">>
upperHexDigits == <<"0", "1", "2", "3", "4", "5", "6", "7", "8", "9",
                    "A", "B", "C", "D", "E", "F">>

isHexDigit(c) == \E i \in 1..16 : hexDigits[i] = c \/ upperHexDigits[i] = c

hexDigitValue(c) == (CHOOSE i \in 1..16 : hexDigits[i] = c \/ upperHexDigits[i] = c) - 1

\* a % b of JavaScript on numbers: the sign of the dividend, NaN for a NaN
\* operand or a zero divisor.
jsRemainder(a, b) ==
    IF a = NaN \/ b = NaN \/ b = 0 THEN NaN
    ELSE IF a >= 0 THEN a % b
    ELSE 0 - ((0 - a) % b)

\* str.slice(from) with from counted from 0.
sliceFrom(str, from) == SubSeq(str, from + 1, Len(str))

\* str.startsWith('0x')
startsWith0x(str) == Len(str) >= 2 /\ str[1] = "0" /\ str[2] = "x"

\* parseInt: leading white space is skipped.
RECURSIVE trimStart(_)
trimStart(str) ==
    IF Len(str) > 0 /\ str[1] = " " THEN trimStart(sliceFrom(str, 1)) ELSE str

\* parseInt: the value of the longest prefix of hex digits, from acc.
RECURSIVE digitsValue(_, _)
digitsValue(str, acc) ==
    IF Len(str) = 0 \/ ~isHexDigit(str[1]) THEN acc
    ELSE digitsValue(sliceFrom(str, 1), 16 * acc + hexDigitValue(str[1]))

\* parseInt(str, 16): white space, a sign, an optional 0x, then hex digits
\* up to the first character that is none; NaN when there is no digit.
parseInt16(str) ==
    LET t == trimStart(str)
        negative == Len(t) > 0 /\ t[1] = "-"
        signed == Len(t) > 0 /\ t[1] \in {"-", "+"}
        u == IF signed THEN sliceFrom(t, 1) ELSE t
        prefixed == Len(u) >= 2 /\ u[1] = "0" /\ u[2] \in {"x", "X"}
        d == IF prefixed THEN sliceFrom(u, 2) ELSE u
    IN  IF Len(d) = 0 \/ ~isHexDigit(d[1]) THEN NaN
        ELSE IF negative THEN 0 - digitsValue(d, 0)
        ELSE digitsValue(d, 0)

\* RandomnessDerivation.hexToBytes, from character i (counted from 0) on.
RECURSIVE hexToBytesFrom(_, _, _)
hexToBytesFrom(hex, i, bytes) ==
    IF i >= Len(hex) THEN bytes
    ELSE LET byte == parseInt16(SubSeq(hex, i + 1, IF i + 2 <= Len(hex) THEN i + 2 ELSE Len(hex)))
         IN  hexToBytesFrom(hex, i + 2, IF byte # NaN THEN Append(bytes, byte) ELSE bytes)

hexToBytes(hex) == hexToBytesFrom(hex, 0, <<>>)

\* randomness.startsWith('0x') ? randomness.slice(2) : randomness
cleanRandomness(rnd) == IF startsWith0x(rnd) THEN sliceFrom(rnd, 2) ELSE rnd

\* available.splice(index, 1): the start of the removal, counted from 0; a
\* negative index counts from the end.
spliceStart(list, index) ==
    IF index >= 0 THEN (IF index > Len(list) THEN Len(list) ELSE index)
    ELSE (IF Len(list) + index < 0 THEN 0 ELSE Len(list) + index)

\* The element splice(index, 1) removes, and the list it leaves.
spliced(list, index) == list[spliceStart(list, index) + 1]

afterSplice(list, index) ==
    LET s == spliceStart(list, index)
    IN  SubSeq(list, 1, s) \o SubSeq(list, s + 2, Len(list))

\* deriveLotofacilWinning: the loop over the bytes.
RECURSIVE pickByBytes(_, _, _, _)
pickByBytes(bytes, picked, available, byteIndex) ==
    IF ~(Len(picked) < 15 /\ byteIndex < Len(bytes)) \/ Len(available) = 0
    THEN [numbers |-> picked, available |-> available]
    ELSE LET randomByte == bytes[(byteIndex % Len(bytes)) + 1]
             index == jsRemainder(randomByte, Len(available))
         IN  pickByBytes(bytes, Append(picked, spliced(available, index)),
                         afterSplice(available, index), byteIndex + 1)

\* deriveLotofacilWinning: the loop that fills what the bytes left open.
RECURSIVE pickByFallback(_, _)
pickByFallback(picked, available) ==
    IF ~(Len(picked) < 15 /\ Len(available) > 0) THEN picked
    ELSE LET index == (Len(picked) * 7) % Len(available)
         IN  pickByFallback(Append(picked, spliced(available, index)),
                            afterSplice(available, index))

\* RandomnessDerivation.deriveLotofacilWinning.
deriveLotofacilWinning(rnd) ==
    LET bytes == hexToBytes(cleanRandomness(rnd))
        byBytes == pickByBytes(bytes, <<>>, [i \in 1..25 |-> i], 0)
    IN  sortAscending(pickByFallback(byBytes.numbers, byBytes.available))

\* RandomnessDerivation.deriveSuperseteWinning: digit i (counted from 0).
\* With no bytes i % bytes.length is NaN, bytes[NaN] is undefined and
\* undefined % 10 is NaN.
superseteDigit(bytes, i) ==
    LET byteIndex == jsRemainder(i, Len(bytes))
        randomByte == IF byteIndex = NaN THEN NaN ELSE bytes[byteIndex + 1]
    IN  jsRemainder(randomByte, 10)

deriveSuperseteWinning(rnd) ==
    LET bytes == hexToBytes(cleanRandomness(rnd))
    IN  [i \in 1..7 |-> superseteDigit(bytes, i - 1)]

\* RandomnessDerivation.deriveWinningNumbers.
deriveWinningNumbers(rnd, g) ==
    IF g = LOTOFACIL THEN Returned(deriveLotofacilWinning(rnd))
    ELSE IF g = SUPERSETE THEN Returned(deriveSuperseteWinning(rnd))
    ELSE Raised("Unsupported game type")

----------------------------------------------------------------------------
(* The deriver's caller: one randomness value and one game tag.            *)

\* The characters of the randomness values: hex digits, a letter that is
\* none, and a sign.
RandomnessChars == {"0", "7", "c", "g", "-"}

Patterns == UNION {[1..n -> RandomnessChars] : n \in 0..MaxPatternLen}

RECURSIVE repeated(_, _)
repeated(pattern, r) == IF r = 0 THEN <<>> ELSE pattern \o repeated(pattern, r - 1)

\* A randomness value: an optional 0x, then a pattern repeated.
RandomnessValues ==
    {prefix \o repeated(pattern, r) :
        prefix \in {<<>>, <<"0", "x">>}, pattern \in Patterns, r \in 1..MaxRepeat}

InitDerive ==
    /\ randomness \in RandomnessValues
    /\ dgame \in GameTags
    /\ derived = NoDerived
    /\ dpc = "start"
    /\ UtilIdle
    /\ ServiceIdle
    /\ EvalIdle
    /\ PrizeIdle
    /\ now = 0
    /\ StoreIdle
    /\ EngineIdle

DeriveWinningNumbers ==
    /\ dpc = "start"
    /\ derived' = deriveWinningNumbers(randomness, dgame)
    /\ dpc' = "derived"
    /\ UNCHANGED <<randomness, dgame>>
    /\ UNCHANGED <<serviceVars, utilVars, evalVars, prizeVars, now, storeVars, engineVars>>

NextDerive == DeriveWinningNumbers

SpecDerive == InitDerive /\ [][NextDerive]_vars

----------------------------------------------------------------------------
(* RandomnessDerivation: properties.                                       *)

\* The byte stream deriveWinningNumbers read.
DerivedBytes == hexToBytes(cleanRandomness(randomness))

\* C11: for every randomness value and both games, deriveWinningNumbers
\* returns a selection with the game's Selection invariants: 15 distinct
\* numbers in 1..25 in ascending order, or 7 digits each in 0..9.
C11_DerivedSelectionIsValid ==
    (dpc = "derived" /\ dgame \in {LOTOFACIL, SUPERSETE}) =>
        /\ derived.ok
        /\ dgame = LOTOFACIL =>
              /\ ValidFixedChoice(derived.value)
              /\ derived.value = ascending(elements(derived.value))
        /\ dgame = SUPERSETE =>
              /\ Len(derived.value) = 7
              /\ \A i \in 1..7 : derived.value[i] # NaN /\ derived.value[i] \in 0..9

\* The derivation as described: pick k takes byte k mod len, cycling over
\* the stream; the (resultLength * 7) mod poolSize rule only for an empty
\* stream.
RECURSIVE cyclingPicks(_, _, _)
cyclingPicks(bytes, picked, available) ==
    IF Len(picked) >= 15 THEN picked
    ELSE LET index == IF Len(bytes) = 0
                      THEN (Len(picked) * 7) % Len(available)
                      ELSE jsRemainder(bytes[(Len(picked) % Len(bytes)) + 1], Len(available))
         IN  cyclingPicks(bytes, Append(picked, spliced(available, index)),
                          afterSplice(available, index))

\* C12: the FixedChoice derivation is the cycling derivation: pick k uses
\* byte k mod len of a non-empty stream, and the fallback index is used
\* only when the stream is empty.
C12_PicksCycleOverBytes ==
    (dpc = "derived" /\ dgame = LOTOFACIL) =>
        derived.value = sortAscending(cyclingPicks(DerivedBytes, <<>>, [i \in 1..25 |-> i]))

----------------------------------------------------------------------------
(* The tier evaluators: ConsolidatorService.checkTicketWinning             *)
(* (src/src/services/ConsolidatorService.ts) and                           *)
(* RandomnessDerivation.checkWinning, which BlockchainService.checkWinning *)
(* calls.                                                                  *)

\* Sample selections of the evaluators are shifted by 0..MaxShift.
MaxShift == 10

\* `let tier: number | undefined` left undefined.
NoTier == 0

\* ticketNumbers.filter(num => winningNumbers.includes(num)).length
includedCount(ticketNums, winningNums) ==
    Cardinality({i \in 1..Len(ticketNums) :
                    \E j \in 1..Len(winningNums) : winningNums[j] = ticketNums[i]})

\* The mutation of checkLotofacilWinning: the last branch of the tier chain
\* is missing.
checkLotofacilWinningFourTiers(ticketNums, winningNums) ==
    LET matchCount == includedCount(ticketNums, winningNums)
        tier == IF matchCount = 15 THEN 1
                ELSE IF matchCount = 14 THEN 2
                ELSE IF matchCount = 13 THEN 3
                ELSE IF matchCount = 12 THEN 4
                ELSE NoTier
    IN  [isWinner |-> tier # NoTier, matchCount |-> matchCount, tier |-> tier]

\* RandomnessDerivation.checkLotofacilWinning.
checkLotofacilWinning(ticketNums, winningNums) ==
    LET matchCount == includedCount(ticketNums, winningNums)
        tier == IF matchCount = 15 THEN 1
                ELSE IF matchCount = 14 THEN 2
                ELSE IF matchCount = 13 THEN 3
                ELSE IF matchCount = 12 THEN 4
                ELSE IF matchCount = 11 THEN 5
                ELSE NoTier
    IN  [isWinner |-> tier # NoTier, matchCount |-> matchCount, tier |-> tier]

\* Math.min(ticketNumbers.length, winningNumbers.length)
minLength(ticketNums, winningNums) ==
    IF Len(ticketNums) < Len(winningNums) THEN Len(ticketNums) ELSE Len(winningNums)

\* RandomnessDerivation.checkSuperseteWinning: every position with equal
\* digits counts.
checkSuperseteWinning(ticketNums, winningNums) ==
    LET matches == Cardinality({i \in 1..minLength(ticketNums, winningNums) :
                                   ticketNums[i] = winningNums[i]})
        tier == IF matches = 7 THEN 1
                ELSE IF matches = 6 THEN 2
                ELSE IF matches = 5 THEN 3
                ELSE IF matches = 4 THEN 4
                ELSE IF matches = 3 THEN 5
                ELSE NoTier
    IN  [isWinner |-> tier # NoTier, matchCount |-> matches, tier |-> tier]

\* RandomnessDerivation.checkWinning.
checkWinning(ticketNums, winningNums, g) ==
    IF g = LOTOFACIL THEN checkLotofacilWinning(ticketNums, winningNums)
    ELSE IF g = SUPERSETE THEN checkSuperseteWinning(ticketNums, winningNums)
    ELSE [isWinner |-> FALSE, matchCount |-> 0, tier |-> NoTier]

\* checkTicketWinning, SuperSete: the loop from the last position down, which
\* breaks at the first position whose digits differ (a position the winning
\* selection does not have differs).
RECURSIVE consecutiveFromRight(_, _, _)
consecutiveFromRight(ticketNums, winningNums, i) ==
    IF i < 1 THEN 0
    ELSE IF i <= Len(winningNums) /\ ticketNums[i] = winningNums[i]
         THEN 1 + consecutiveFromRight(ticketNums, winningNums, i - 1)
         ELSE 0

\* ConsolidatorService.checkTicketWinning.
checkTicketWinning(ticketNums, winningNums, g) ==
    IF g = LOTOFACIL THEN
        LET matchCount == includedCount(ticketNums, winningNums)
            tier == IF matchCount = 15 THEN 1
                    ELSE IF matchCount = 14 THEN 2
                    ELSE IF matchCount = 13 THEN 3
                    ELSE IF matchCount = 12 THEN 4
                    ELSE IF matchCount = 11 THEN 5
                    ELSE NoTier
        IN  [isWinner |-> tier # NoTier, matchCount |-> matchCount, tier |-> tier]
    ELSE IF g = SUPERSETE THEN
        LET consecutiveMatches == consecutiveFromRight(ticketNums, winningNums, Len(ticketNums))
            tier == IF consecutiveMatches = 7 THEN 1
                    ELSE IF consecutiveMatches = 6 THEN 2
                    ELSE IF consecutiveMatches = 5 THEN 3
                    ELSE IF consecutiveMatches = 4 THEN 4
                    ELSE IF consecutiveMatches = 3 THEN 5
                    ELSE NoTier
        IN  [isWinner |-> tier # NoTier, matchCount |-> consecutiveMatches, tier |-> tier]
    ELSE [isWinner |-> FALSE, matchCount |-> 0, tier |-> NoTier]

----------------------------------------------------------------------------
(* The evaluators' caller: one ticket selection, one winning selection of  *)
(* the same game, one evaluator.                                           *)

\* Valid FixedChoice selections, in scrambled order.
FixedChoiceSamples == {lotofacilSample(a, c) : a \in {1, 2, 3}, c \in 0..MaxShift}

\* Valid PositionalDigits selections.
PositionalSamples == {superseteSample(a, c) : a \in {1, 3}, c \in {0, 5}}

\* sel with another digit at every position of changed.
withChanged(sel, changed) ==
    [i \in 1..Len(sel) |-> IF i \in changed THEN (sel[i] + 1) % 10 ELSE sel[i]]

\* Pairs <<game, ticket selection, winning selection>>.
EvaluationInputs ==
    {<<LOTOFACIL, t, w>> : t \in FixedChoiceSamples, w \in FixedChoiceSamples}
    \cup {<<SUPERSETE, withChanged(w, changed), w>> :
             w \in PositionalSamples, changed \in SUBSET (1..7)}
    \cup {<<2, w, w>> : w \in PositionalSamples}

InitEval ==
    /\ \E input \in EvaluationInputs :
          /\ egame = input[1]
          /\ ticketNumbers = input[2]
          /\ winningNumbers = input[3]
    /\ evalOut = NoEvaluation
    /\ epc = "start"
    /\ UtilIdle
    /\ ServiceIdle
    /\ DeriveIdle
    /\ PrizeIdle
    /\ now = 0
    /\ StoreIdle
    /\ EngineIdle

\* ConsolidatorService.calculateWinners evaluates a ticket.
CheckTicketWinning ==
    /\ epc = "start"
    /\ evalOut' = [by |-> "ConsolidatorService"]
                  @@ checkTicketWinning(ticketNumbers, winningNumbers, egame)
    /\ epc' = "checked"
    /\ UNCHANGED <<ticketNumbers, winningNumbers, egame>>
    /\ UNCHANGED <<serviceVars, utilVars, deriveVars, prizeVars, now, storeVars, engineVars>>

\* BlockchainService.checkWinning evaluates a ticket.
CheckWinning ==
    /\ epc = "start"
    /\ evalOut' = [by |-> "RandomnessDerivation"]
                  @@ checkWinning(ticketNumbers, winningNumbers, egame)
    /\ epc' = "checked"
    /\ UNCHANGED <<ticketNumbers, winningNumbers, egame>>
    /\ UNCHANGED <<serviceVars, utilVars, deriveVars, prizeVars, now, storeVars, engineVars>>

NextEval ==
    \/ CheckTicketWinning
    \/ CheckWinning

SpecEval == InitEval /\ [][NextEval]_vars

----------------------------------------------------------------------------
(* Tier evaluation: properties.                                            *)

\* The tier of a count of matches: best gets 1, best - 4 gets 5, fewer none.
tierOfCount(count, best) == IF count \in (best - 4)..best THEN best - count + 1 ELSE NoTier

\* The number of consecutive equal digits from the last position toward the
\* first.
suffixRun(ticketNums, winningNums) ==
    LET n == Len(ticketNums)
        runs == {k \in 0..n : \A i \in (n - k + 1)..n : ticketNums[i] = winningNums[i]}
    IN  CHOOSE k \in runs : \A j \in runs : j <= k

\* C13: for FixedChoice every evaluator reports matchCount = the size of
\* the intersection of the ticket's and the winning numbers, tier 1..5 for
\* 15..11 matches and no tier below 11.
C13_FixedChoiceTiers ==
    (epc = "checked" /\ egame = LOTOFACIL) =>
        LET common == Cardinality(elements(ticketNumbers) \cap elements(winningNumbers))
        IN  /\ evalOut.matchCount = common
            /\ evalOut.tier = tierOfCount(common, 15)
            /\ common < 11 => evalOut.tier = NoTier
            /\ evalOut.isWinner <=> common >= 11

\* C13 witness: RandomnessDerivation.checkWinning found 11 common numbers
\* and gave tier 5.
C13_Witness ==
    /\ epc = "checked"
    /\ egame = LOTOFACIL
    /\ evalOut.by = "RandomnessDerivation"
    /\ Cardinality(elements(ticketNumbers) \cap elements(winningNumbers)) = 11
    /\ ticketNumbers # winningNumbers
    /\ evalOut.tier = 5
    /\ evalOut.isWinner

\* C14: for PositionalDigits every evaluator reports matchCount = the run
\* of equal digits from the last position toward the first, tier 1..5 for
\* a run of 7..3 and no tier for a shorter run.
C14_SuffixRunInEveryEvaluator ==
    (epc = "checked" /\ egame = SUPERSETE) =>
        LET run == suffixRun(ticketNumbers, winningNumbers)
        IN  /\ evalOut.matchCount = run
            /\ evalOut.tier = tierOfCount(run, 7)
            /\ evalOut.isWinner <=> run >= 3

----------------------------------------------------------------------------
(* ConsolidatorService.calculatePrizeDistribution.  Amounts of money are   *)
(* whole cents: toFixed(2) renders a number to the cent, so the string     *)
(* '50.16' is 5016.  A percentage is its number of hundredths.             *)

\* Most winners of one tier.
MaxWinners == 3
\* The sample pools are the multiples of 8 cents and of one ticket price up
\* to MaxPoolStep of them.
MaxPoolStep == 4

\* parseFloat('10000.00'), the pool calculateWinners hands over, in cents.
TotalPrizePoolCents == 1000000

\* 2.50, the price of a ticket, in cents.
TicketPriceCents == 250

Tiers == 1..5

\* distributionPercentages of the two games, in hundredths.
distributionPercentages(g) ==
    IF g = LOTOFACIL THEN <<50, 25, 15, 8, 2>> ELSE <<60, 20, 12, 6, 2>>

\* (num / den).toFixed(2) for an amount of num / den cents: the nearest
\* cent.  An amount exactly half way between two cents is a double just
\* above or just below the half, so it is rendered as either cent.
toFixed2(num, den) ==
    LET q == num \div den
        r == num % den
    IN  IF 2 * r < den THEN {q}
        ELSE IF 2 * r > den THEN {q + 1}
        ELSE {q, q + 1}

\* One pass of the loop of calculatePrizeDistribution: what a tier's entry
\* can become.
tierEntries(tierInfo, tierNum, pool, g) ==
    LET percentage == IF tierNum \in Tiers THEN distributionPercentages(g)[tierNum] ELSE 0
    IN  {[count |-> tierInfo.count, prizePerWinner |-> perWinner, totalPrize |-> total] :
            total \in toFixed2(pool * percentage, 100),
            perWinner \in IF tierInfo.count > 0
                          THEN toFixed2(pool * percentage, 100 * tierInfo.count)
                          ELSE {0}}

\* for (const tier in winnersByTier): the objects the entries of `tiers` can
\* become.
RECURSIVE filledEntries(_, _, _, _)
filledEntries(byTier, tiers, pool, g) ==
    IF tiers = {} THEN {<<>>}
    ELSE LET t == CHOOSE x \in tiers : \A y \in tiers : x <= y
             rest == filledEntries(byTier, tiers \ {t}, pool, g)
         IN  {(t :> entry) @@ others :
                 entry \in tierEntries(byTier[t], t, pool, g), others \in rest}

\* ConsolidatorService.calculatePrizeDistribution: the objects winnersByTier
\* can be after the call.
calculatePrizeDistribution(byTier, pool, g) ==
    filledEntries(byTier, DOMAIN byTier, pool, g)

\* The entry calculateWinners creates for a tier, with its winners counted.
countedEntry(n) == [count |-> n, prizePerWinner |-> 0, totalPrize |-> 0]

\* The objects calculateWinners hands over: an entry for every tier that has
\* a winner.
CountedWinners ==
    UNION {[present -> {countedEntry(n) : n \in 1..MaxWinners}] : present \in SUBSET Tiers}

PoolSamples ==
    {8 * k : k \in 0..MaxPoolStep} \cup {TicketPriceCents * k : k \in 1..MaxPoolStep}
    \cup {TotalPrizePoolCents}

InitPrize ==
    /\ winnersByTier \in CountedWinners
    /\ totalPrizePool \in PoolSamples
    /\ pgame \in {LOTOFACIL, SUPERSETE}
    /\ ppc = "start"
    /\ UtilIdle
    /\ ServiceIdle
    /\ DeriveIdle
    /\ EvalIdle
    /\ now = 0
    /\ StoreIdle
    /\ EngineIdle

CalculatePrizeDistribution ==
    /\ ppc = "start"
    /\ winnersByTier' \in calculatePrizeDistribution(winnersByTier, totalPrizePool, pgame)
    /\ ppc' = "distributed"
    /\ UNCHANGED <<totalPrizePool, pgame>>
    /\ UNCHANGED <<serviceVars, utilVars, deriveVars, evalVars, now, storeVars, engineVars>>

NextPrize == CalculatePrizeDistribution

SpecPrize == InitPrize /\ [][NextPrize]_vars

----------------------------------------------------------------------------
(* Prize distribution: properties.                                         *)

RECURSIVE sumOfTotals(_, _)
sumOfTotals(byTier, tiers) ==
    IF tiers = {} THEN 0
    ELSE LET t == CHOOSE x \in tiers : TRUE
         IN  byTier[t].totalPrize + sumOfTotals(byTier, tiers \ {t})

\* C15: for every pool and every combination of winner counts the sum over
\* the tiers of totalPrize, as rounded to the cent, is at most the pool.
C15_TotalsWithinPool ==
    ppc = "distributed" =>
        sumOfTotals(winnersByTier, DOMAIN winnersByTier) <= totalPrizePool

\* C16: for every tier with a winner, prizePerWinner times the winner count
\* equals the tier's totalPrize, so paying every winner never exceeds it.
C16_PerWinnerTimesCountIsTotal ==
    ppc = "distributed" =>
        \A t \in DOMAIN winnersByTier :
            winnersByTier[t].count > 0 =>
                winnersByTier[t].prizePerWinner * winnersByTier[t].count
                    = winnersByTier[t].totalPrize

----------------------------------------------------------------------------
(* Eligible tickets: ConsolidatorService.collectValidTickets and           *)
(* DbService.getValidTicketsForDraw (src/unnamed/part_006).  Time is in    *)
(* ticks; the wall clock reads 0..MaxClock.                                *)

\* The last reading of the wall clock.
MaxClock == 3
\* Most tickets in the ticket table.
MaxStored == 2

\* new Date('2024-01-01T10:00:00Z') and new Date('2024-01-11T10:00:00Z'),
\* createdAt and expirationAt of the mock ticket, in ticks.
MockCreatedAt == 1
MockExpirationAt == 2

\* The draws the services are asked about: the mock ticket's firstDrawId is
\* drawId - 2, a uint256 field of its leaf, which is negative for draw 1.
EngineDraws == 1..(MaxDrawId + 1)

\* collectValidTickets: mockTickets.
mockTickets(drawId) ==
    <<[id |-> 1,
       owner |-> "0x1234567890123456789012345678901234567890",
       game |-> LOTOFACIL,
       numbers |-> [i \in 1..15 |-> i],
       numbersPacked |-> <<"0", "x", "7", "f", "f", "f">>,
       roundsBought |-> 10,
       roundsRemaining |-> 5,
       firstDrawId |-> drawId - 2,
       createdAt |-> MockCreatedAt,
       expirationAt |-> MockExpirationAt,
       status |-> "ACTIVE"]>>

\* collectValidTickets: the filter, at wall-clock time `clock`.
isValidTicket(t, drawId, clock) ==
    LET isInValidRange == t.firstDrawId <= drawId /\ drawId <= t.firstDrawId + t.roundsBought - 1
        isActive == t.status = "ACTIVE"
        notExpired == clock < t.expirationAt
    IN  isInValidRange /\ isActive /\ notExpired

\* ConsolidatorService.collectValidTickets, called at time `clock`.
collectValidTickets(drawId, clock) ==
    SelectSeq(mockTickets(drawId), LAMBDA t : isValidTicket(t, drawId, clock))

\* DbService.getValidTicketsForDraw over the tables `tickets` and `draws`.
getValidTicketsForDraw(drawId, tickets, draws) ==
    IF drawId \notin DOMAIN draws THEN {}
    ELSE LET cutoffAt == draws[drawId]
             found == {t \in tickets : /\ t.status = "ACTIVE"
                                       /\ t.createdAt <= cutoffAt
                                       /\ t.firstDrawId <= drawId}
         IN  {t \in found : drawId <= t.firstDrawId + t.roundsBought - 1}

\* new Date() reads a later time.
Tick ==
    /\ now < MaxClock
    /\ now' = now + 1
    /\ UNCHANGED <<serviceVars, utilVars, deriveVars, evalVars, prizeVars, storeVars, engineVars>>

\* The fields of a row of the ticket table that eligibility reads.
TicketFields ==
    [firstDrawId : {0, 3}, roundsBought : {1, 10},
     status : {"ACTIVE", "EXPIRED"}, createdAt : {MockCreatedAt, MaxClock}]

\* Ticket tables: one row for each id that is present.
TicketTables ==
    UNION {{{[id |-> i] @@ fields[i] : i \in present} : fields \in [present -> TicketFields]} :
              present \in SUBSET (1..MaxStored)}

\* Draw tables: the cutoffAt of the draws that have a row.
DrawTables ==
    UNION {[known -> {0, MockExpirationAt}] : known \in SUBSET EngineDraws}

InitStore ==
    /\ dbTickets \in TicketTables
    /\ dbDraws \in DrawTables
    /\ query = NoQuery
    /\ now = 0
    /\ UtilIdle
    /\ ServiceIdle
    /\ DeriveIdle
    /\ EvalIdle
    /\ PrizeIdle
    /\ EngineIdle

\* A caller asks ConsolidatorService for the eligible tickets of a draw.
CollectValidTickets(drawId) ==
    /\ query.by = "none"
    /\ LET found == collectValidTickets(drawId, now)
       IN  query' = [drawId |-> drawId, by |-> "ConsolidatorService",
                     ids |-> {found[i].id : i \in 1..Len(found)}]
    /\ UNCHANGED <<dbTickets, dbDraws, now>>
    /\ UNCHANGED <<serviceVars, utilVars, deriveVars, evalVars, prizeVars, engineVars>>

\* A caller asks DbService for the eligible tickets of a draw.
GetValidTicketsForDraw(drawId) ==
    /\ query.by = "none"
    /\ query' = [drawId |-> drawId, by |-> "DbService",
                 ids |-> {t.id : t \in getValidTicketsForDraw(drawId, dbTickets, dbDraws)}]
    /\ UNCHANGED <<dbTickets, dbDraws, now>>
    /\ UNCHANGED <<serviceVars, utilVars, deriveVars, evalVars, prizeVars, engineVars>>

NextStore ==
    \/ Tick
    \/ \E d \in EngineDraws : CollectValidTickets(d)
    \/ \E d \in EngineDraws : GetValidTicketsForDraw(d)

SpecStore == InitStore /\ [][NextStore]_vars

----------------------------------------------------------------------------
(* Eligible tickets: properties.                                           *)

\* Eligibility as stated: the validity window covers the draw, the ticket
\* is active, and it was created at or before the draw's cutoff time.
Eligible(t, drawId) ==
    /\ t.firstDrawId <= drawId
    /\ drawId <= t.firstDrawId + t.roundsBought - 1
    /\ t.status = "ACTIVE"
    /\ drawId \in DOMAIN dbDraws
    /\ t.createdAt <= dbDraws[drawId]

\* C17: a ticket is collected for draw d iff its window covers d, it is
\* ACTIVE and it was created at or before d's cutoff; the two services
\* apply that one rule, each to the tickets it holds.
C17_EligibilityRule ==
    /\ query.by = "DbService" =>
          query.ids = {t.id : t \in {r \in dbTickets : Eligible(r, query.drawId)}}
    /\ query.by = "ConsolidatorService" =>
          LET held == mockTickets(query.drawId)
          IN  query.ids = {held[i].id : i \in {k \in 1..Len(held) : Eligible(held[k], query.drawId)}}

----------------------------------------------------------------------------
(* Phase A: ConsolidatorService.processDrawConsolidation, run by the       *)
(* consolidate-draw job (src/unnamed/part_003).  Every await of the        *)
(* function is a step of its own, so two jobs interleave.                  *)

\* Two consolidate-draw jobs.
JobIds == {"job1", "job2"}

IdleJob ==
    [pc |-> "idle", drawId |-> 0, validTickets |-> <<>>, totalPool |-> 0,
     merkle |-> NoTree, error |-> ""]

\* generateMerkleTree: a ticket as TicketLeafData.
ticketLeafData(t) ==
    LET parsed == parseInt16(t.numbersPacked)
    IN  [ticketId |-> t.id, owner |-> t.owner, game |-> t.game,
         numbersPacked |-> IF parsed = NaN THEN 0 ELSE parsed,
         roundsBought |-> t.roundsBought, firstDrawId |-> t.firstDrawId]

\* The digest MerkleTree.generateLeafHash gives a leaf, named by a natural
\* number: the leaves of the mock tickets differ in firstDrawId only.
leafDigest(data) == data.firstDrawId + 1

\* MerkleTree.generateLeafHash returns: ethers.solidityPackedKeccak256
\* throws for a negative value in a uint256 field.
canHashLeaf(data) == data.firstDrawId >= 0

\* ConsolidatorService.generateMerkleTree.
generateMerkleTree(tickets) ==
    IF Len(tickets) = 0
    THEN [NoTree EXCEPT !.error = "Failed to generate Merkle tree"]
    ELSE IF \E i \in 1..Len(tickets) : ~canHashLeaf(ticketLeafData(tickets[i]))
    THEN [NoTree EXCEPT !.error = "Failed to generate Merkle tree"]
    ELSE LET leafHashes == [i \in 1..Len(tickets) |-> leafDigest(ticketLeafData(tickets[i]))]
             treeResult == buildTree(leafHashes)
         IN  IF treeResult.status # "ok"
             THEN [NoTree EXCEPT !.error = "Failed to generate Merkle tree"]
             ELSE [ok |-> TRUE,
                   root |-> treeResult.root,
                   leaves |-> leafHashes,
                   proofs |-> [i \in 1..Len(tickets) |-> treeResult.proofs[leafHashes[i]]],
                   error |-> ""]

\* processDrawConsolidation that goes on with no valid ticket.
afterCollectNoSkip(validTickets) == "hash"

\* processDrawConsolidation: where it goes with the tickets collected.
afterCollect(validTickets) == IF Len(validTickets) = 0 THEN "skipped" ELSE "hash"

\* processDrawConsolidation that goes on to submit after a failed build.
afterTreeSwallowed(merkleResult) == "submit"

\* processDrawConsolidation: where it goes with what generateMerkleTree
\* gave: its exception leaves through the catch, which rethrows.
afterTree(merkleResult) == IF merkleResult.ok THEN "submit" ELSE "failed"

\* (validTickets.length * 2.50).toFixed(2), in cents.
totalPoolOf(validTickets) == Len(validTickets) * TicketPriceCents

InitJobs ==
    /\ jobs = [j \in JobIds |-> IdleJob]
    /\ submissions = <<>>
    /\ calcs = <<>>
    /\ now = 0
    /\ UtilIdle
    /\ ServiceIdle
    /\ DeriveIdle
    /\ EvalIdle
    /\ PrizeIdle
    /\ StoreIdle

\* consolidateDrawJob.handler calls processDrawConsolidation(drawId), which
\* awaits collectValidTickets.
StartJob(j, drawId) ==
    /\ jobs[j].pc = "idle"
    /\ jobs' = [jobs EXCEPT ![j] = [IdleJob EXCEPT !.pc = "collect", !.drawId = drawId]]
    /\ UNCHANGED <<submissions, calcs, now>>
    /\ UNCHANGED <<serviceVars, utilVars, deriveVars, evalVars, prizeVars, storeVars>>

\* collectValidTickets returns; with no ticket the function returns, else it
\* computes the pool and awaits generateMerkleTree.
Collected(j) ==
    /\ jobs[j].pc = "collect"
    /\ LET validTickets == collectValidTickets(jobs[j].drawId, now)
       IN  jobs' = [jobs EXCEPT ![j].validTickets = validTickets,
                                ![j].pc = afterCollect(validTickets),
                                ![j].totalPool = IF afterCollect(validTickets) = "skipped"
                                                 THEN 0 ELSE totalPoolOf(validTickets)]
    /\ UNCHANGED <<submissions, calcs, now>>
    /\ UNCHANGED <<serviceVars, utilVars, deriveVars, evalVars, prizeVars, storeVars>>

\* generateMerkleTree returns or throws; a throw is rethrown to the job.
TreeGenerated(j) ==
    /\ jobs[j].pc = "hash"
    /\ LET merkleResult == generateMerkleTree(jobs[j].validTickets)
       IN  jobs' = [jobs EXCEPT ![j].merkle = merkleResult,
                                ![j].pc = afterTree(merkleResult),
                                ![j].error = merkleResult.error]
    /\ UNCHANGED <<submissions, calcs, now>>
    /\ UNCHANGED <<serviceVars, utilVars, deriveVars, evalVars, prizeVars, storeVars>>

\* submitConsolidation(drawId, merkleResult.root, totalPool) returns its
\* transaction hash and the function completes.
Submitted(j) ==
    /\ jobs[j].pc = "submit"
    /\ submissions' = Append(submissions,
                             [job |-> j, drawId |-> jobs[j].drawId,
                              merkleRoot |-> jobs[j].merkle.root,
                              totalPool |-> jobs[j].totalPool])
    /\ jobs' = [jobs EXCEPT ![j].pc = "done"]
    /\ UNCHANGED <<calcs, now>>
    /\ UNCHANGED <<serviceVars, utilVars, deriveVars, evalVars, prizeVars, storeVars>>

NextJobs ==
    \/ Tick
    \/ \E j \in JobIds : \E d \in EngineDraws : StartJob(j, d)
    \/ \E j \in JobIds : Collected(j)
    \/ \E j \in JobIds : TreeGenerated(j)
    \/ \E j \in JobIds : Submitted(j)

SpecJobs == InitJobs /\ [][NextJobs]_vars

----------------------------------------------------------------------------
(* Phase A: properties.                                                    *)

SubmissionsOf(drawId) == {i \in 1..Len(submissions) : submissions[i].drawId = drawId}

\* C18: a consolidation that finds no eligible ticket is skipped: it returns
\* without an error to the job, builds no Merkle tree and submits nothing.
C18_NoTicketsSkips ==
    \A j \in JobIds :
        (jobs[j].pc \notin {"idle", "collect"} /\ Len(jobs[j].validTickets) = 0) =>
            /\ jobs[j].pc = "skipped"
            /\ jobs[j].error = ""
            /\ jobs[j].merkle = NoTree
            /\ \A i \in 1..Len(submissions) : submissions[i].job # j

\* C18 witness: one job found the ticket expired and was skipped, after the
\* other job had consolidated the same draw.
C18_Witness ==
    \E j \in JobIds : \E k \in JobIds :
        /\ jobs[j].pc = "skipped"
        /\ Len(jobs[j].validTickets) = 0
        /\ jobs[k].pc = "done"
        /\ jobs[k].drawId = jobs[j].drawId
        /\ Cardinality(SubmissionsOf(jobs[j].drawId)) = 1

\* C19: at most one consolidation is submitted for a draw, whether the
\* second processDrawConsolidation runs after the first or along with it.
C19_AtMostOneSubmissionPerDraw ==
    \A d \in EngineDraws : Cardinality(SubmissionsOf(d)) <= 1

----------------------------------------------------------------------------
(* Phase B: ConsolidatorService.calculateWinners, run by the               *)
(* calculate-winners job.                                                  *)

\* calculateWinners: the loop over the valid tickets, from ticket i on.
RECURSIVE countWinners(_, _, _, _, _)
countWinners(validTickets, i, winningNums, gameType, byTier) ==
    IF i > Len(validTickets) THEN byTier
    ELSE IF validTickets[i].game # gameType
    THEN countWinners(validTickets, i + 1, winningNums, gameType, byTier)
    ELSE LET result == checkTicketWinning(validTickets[i].numbers, winningNums, gameType)
             entry == IF result.tier \in DOMAIN byTier THEN byTier[result.tier]
                      ELSE countedEntry(0)
         IN  IF result.isWinner /\ result.tier # NoTier
             THEN countWinners(validTickets, i + 1, winningNums, gameType,
                               (result.tier :> [entry EXCEPT !.count = @ + 1]) @@ byTier)
             ELSE countWinners(validTickets, i + 1, winningNums, gameType, byTier)

\* ConsolidatorService.calculateWinners, called at time `clock`: the objects
\* it can return.
calculateWinners(drawId, winningNums, clock) ==
    LET validTickets == collectValidTickets(drawId, clock)
        gameType == LOTOFACIL
        counted == countWinners(validTickets, 1, winningNums, gameType, <<>>)
    IN  calculatePrizeDistribution(counted, TotalPrizePoolCents, gameType)

\* Winning selections: the numbers of the mock ticket, the numbers 3..17,
\* and the mockWinningNumbers of the calculate-winners job.
WinningSamples ==
    {[i \in 1..15 |-> i], [i \in 1..15 |-> i + 2],
     <<1, 3, 5, 7, 9, 11, 13, 15, 17, 19, 21, 23, 25, 2, 4>>}

InitWinners ==
    /\ calcs = <<>>
    /\ jobs = <<>>
    /\ submissions = <<>>
    /\ now = 0
    /\ UtilIdle
    /\ ServiceIdle
    /\ DeriveIdle
    /\ EvalIdle
    /\ PrizeIdle
    /\ StoreIdle

\* calculateWinners(drawId, winningNumbers) is called and returns; one call
\* and a second one are followed.
CalculateWinners(drawId, winningNums) ==
    /\ Len(calcs) < 2
    /\ \E result \in calculateWinners(drawId, winningNums, now) :
          calcs' = Append(calcs, [drawId |-> drawId, winningNumbers |-> winningNums,
                                  winnersByTier |-> result])
    /\ UNCHANGED <<jobs, submissions, now>>
    /\ UNCHANGED <<serviceVars, utilVars, deriveVars, evalVars, prizeVars, storeVars>>

NextWinners ==
    \/ Tick
    \/ \E d \in EngineDraws : \E w \in WinningSamples : CalculateWinners(d, w)

SpecWinners == InitWinners /\ [][NextWinners]_vars

----------------------------------------------------------------------------
(* Phase B: properties.                                                    *)

\* C20: two calls of calculateWinners for the same draw with the same
\* winning selection return the same winner counts, prizePerWinner and
\* totalPrize per tier (the stored tickets never change here).
C20_SameInputsSameWinners ==
    \A i \in 1..Len(calcs) : \A k \in 1..Len(calcs) :
        (calcs[i].drawId = calcs[k].drawId /\ calcs[i].winningNumbers = calcs[k].winningNumbers)
            => calcs[i].winnersByTier = calcs[k].winnersByTier

----------------------------------------------------------------------------
(* Unknown game tags.                                                      *)

\* The call ended with the exception `Unsupported game type` (a returned
\* evaluation carries no error).
failedUnsupported(result) ==
    "error" \in DOMAIN result /\ result.error = "Unsupported game type"

\* C21: an evaluator (checkWinning, checkTicketWinning) called with a game
\* tag that is neither of the two games fails with the unsupported-game
\* error instead of returning an evaluation.
C21_UnknownTagIsAnError ==
    (epc = "checked" /\ egame \notin {LOTOFACIL, SUPERSETE}) => failedUnsupported(evalOut)

----------------------------------------------------------------------------
(* The tree's callers: a list of tickets handed to                         *)
(* ConsolidatorService.generateMerkleTree, their leaf hashes handed to     *)
(* MerkleTree.buildTree, and MerkleTree.verifyProof called with a leaf, a  *)
(* proof and a root of the caller's choice.                                *)

\* Most tickets in the list.
MaxCommitted == 4

\* A string that is no 0x-hex data (the digests are the naturals).
NotHex == -1

\* ethers.concat accepts the string.
isBytesLike(v) == v >= 0

\* MerkleTree.verifyProof as called: with a proof element to fold, hashPair
\* hands the running hash and the element to ethers.concat, which throws
\* for a string that is no hex data; the running hash is the leaf at the
\* first element and a digest after it.
verifyProofOutcome(leaf, proof, root) ==
    IF Len(proof) > 0 /\ (~isBytesLike(leaf) \/ \E k \in 1..Len(proof) : ~isBytesLike(proof[k]))
    THEN [threw |-> TRUE, result |-> FALSE]
    ELSE [threw |-> FALSE, result |-> verifyProof(leaf, proof, root)]

\* The tickets of the lists: the mock ticket of the draws from 2 on.
CommitSamples == {mockTickets(d)[1] : d \in 2..(MaxDrawId + 1)}

TicketLists == UNION {[1..n -> CommitSamples] : n \in 0..MaxCommitted}

\* The nodes of every level of a tree.
treeNodes(tree) == UNION {{tree[l][i] : i \in 1..Len(tree[l])} : l \in 1..Len(tree)}

\* The generated proofs and their tails.
proofTails(ls, proofs) ==
    {SubSeq(proofs[ls[i]], k, Len(proofs[ls[i]])) :
        i \in 1..Len(ls), k \in 1..(MaxCommitted + 1)}

\* The leaves, proofs and roots verifyProof is called with.
VerifyLeaves == IF built.status = "ok" THEN treeNodes(built.tree) \cup {NotHex} ELSE {}
VerifyProofs ==
    IF built.status = "ok" THEN proofTails(leaves, built.proofs) \cup {<<NotHex>>} ELSE {}
VerifyRoots == {built.root, NotHex}

\* The fold of the proof from the node stays within the tree's height (and
\* the digests within the integers of the model).
withinHeight(tree, node, proof) ==
    \E l \in 1..Len(tree) :
        /\ \E i \in 1..Len(tree[l]) : tree[l][i] = node
        /\ Len(proof) <= Len(tree) - l

InitTree ==
    /\ commitTickets \in TicketLists
    /\ commitment = NoTree
    /\ leaves = [i \in 1..Len(commitTickets) |-> leafDigest(ticketLeafData(commitTickets[i]))]
    /\ built = NoResult
    /\ mpc = "input"
    /\ verified = NoVerification
    /\ LeafIdle
    /\ CodecIdle
    /\ SettlementIdle
    /\ IndexerIdle
    /\ ControllerIdle

\* generateMerkleTree(commitTickets) is called and returns or throws.
GenerateMerkleTree ==
    /\ commitment = NoTree
    /\ commitment' = generateMerkleTree(commitTickets)
    /\ UNCHANGED commitTickets
    /\ UNCHANGED <<utilVars, settlementVars, indexerVars, controllerVars>>

\* verifyProof(leaf, proof, root) for a node of the tree or a string that
\* is no hex data, a generated proof, a tail of one or a proof of such a
\* string, and the tree's root or such a string.
VerifyAny(leaf, proof, root) ==
    /\ mpc = "built"
    /\ built.status = "ok"
    /\ leaf \in VerifyLeaves
    /\ proof \in VerifyProofs
    /\ root \in VerifyRoots
    /\ leaf = NotHex \/ proof = <<NotHex>> \/ withinHeight(built.tree, leaf, proof)
    /\ verified' = [index |-> 0, leaf |-> leaf, proof |-> proof, root |-> root]
                   @@ verifyProofOutcome(leaf, proof, root)
    /\ mpc' = "verified"
    /\ UNCHANGED <<leaves, built>>
    /\ UNCHANGED <<leafVars, codecVars, settlementVars, serviceVars>>

NextTree ==
    \/ GenerateMerkleTree
    \/ BuildTree
    \/ \E leaf \in VerifyLeaves : \E proof \in VerifyProofs : \E root \in VerifyRoots :
          VerifyAny(leaf, proof, root)

SpecTree == InitTree /\ [][NextTree]_vars

----------------------------------------------------------------------------
(* The tree's callers: properties.                                         *)

\* C22: buildTree called with zero leaves and generateMerkleTree called
\* with zero tickets both fail: neither returns a root.
C22_EmptyInputFails ==
    /\ (mpc # "input" /\ Len(leaves) = 0) =>
          (built.status = "EmptyLeaves" /\ built.tree = <<>>)
    /\ (commitment # NoTree /\ Len(commitTickets) = 0) =>
          (~commitment.ok /\ commitment.error = "Failed to generate Merkle tree")

C22_Witness ==
    /\ Len(commitTickets) = 0
    /\ mpc = "built"
    /\ built.status = "EmptyLeaves"
    /\ commitment.error = "Failed to generate Merkle tree"

\* C23: verifyProof never raises: for every leaf, proof and root it returns
\* a boolean, and a proof of length zero is accepted exactly when the leaf
\* equals the root.
C23_VerifyNeverRaises ==
    mpc = "verified" =>
        /\ ~verified.threw
        /\ verified.result \in BOOLEAN
        /\ Len(verified.proof) = 0 => (verified.result <=> verified.leaf = verified.root)

\* C25: verifyProof(x, p, root), with root the root built over the leaves
\* L, returns true only for an x that is one of L: a node above the leaves
\* with the tail of a proof is not accepted.
C25_OnlyLeavesVerify ==
    (mpc = "verified" /\ verified.root = built.root /\ ~verified.threw /\ verified.result)
        => \E i \in 1..Len(leaves) : leaves[i] = verified.leaf

----------------------------------------------------------------------------
(* Phase A: the order of its steps.                                        *)

\* The root of the tree over the tickets a job collected.
rootOver(validTickets) ==
    buildTree([i \in 1..Len(validTickets) |->
                  leafDigest(ticketLeafData(validTickets[i]))]).root

\* C24: a submission is made only by a run that collected tickets and built
\* their tree, and its root is the root over exactly those tickets; a run
\* whose tree building failed ends with the error raised to the job and
\* submits nothing.
C24_SubmitsAfterCollectAndBuild ==
    /\ \A i \in 1..Len(submissions) :
          LET run == jobs[submissions[i].job]
          IN  /\ run.pc = "done"
              /\ run.drawId = submissions[i].drawId
              /\ Len(run.validTickets) > 0
              /\ run.validTickets = mockTickets(run.drawId)
              /\ run.merkle.ok
              /\ run.error = ""
              /\ submissions[i].merkleRoot = rootOver(run.validTickets)
    /\ \A j \in JobIds :
          /\ jobs[j].pc = "failed" =>
                /\ jobs[j].error = "Failed to generate Merkle tree"
                /\ \A i \in 1..Len(submissions) : submissions[i].job # j
          /\ jobs[j].error # "" => jobs[j].pc = "failed"
          /\ jobs[j].pc = "done" => \E i \in 1..Len(submissions) : submissions[i].job = j

C24_Witness ==
    /\ jobs["job1"].pc = "failed"
    /\ jobs["job2"].pc = "done"
    /\ Len(submissions) = 1

----------------------------------------------------------------------------
(* The two phases together: the consolidate-draw jobs and the calls of     *)
(* calculateWinners of one ConsolidatorService, in any order.              *)

NextSettle ==
    \/ Tick
    \/ \E j \in JobIds : \E d \in EngineDraws : StartJob(j, d)
    \/ \E j \in JobIds : Collected(j)
    \/ \E j \in JobIds : TreeGenerated(j)
    \/ \E j \in JobIds : Submitted(j)
    \/ \E d \in EngineDraws : \E w \in WinningSamples : CalculateWinners(d, w)

SpecSettle == InitJobs /\ [][NextSettle]_vars

\* calculateWinners counted a winner in its k-th call.
countedAWinner(k) ==
    \E t \in DOMAIN calcs[k].winnersByTier : calcs[k].winnersByTier[t].count > 0

\* Phase A of the draw has run to its end.
consolidationEnded(drawId) ==
    \E j \in JobIds : jobs[j].drawId = drawId /\ jobs[j].pc \in {"done", "failed", "skipped"}

\* A root was submitted for the draw whose tree has the leaf of every
\* ticket the service holds for the draw.
committedFor(drawId) ==
    \E i \in SubmissionsOf(drawId) :
        \A n \in 1..Len(mockTickets(drawId)) :
            \E l \in 1..Len(jobs[submissions[i].job].merkle.leaves) :
                jobs[submissions[i].job].merkle.leaves[l]
                    = leafDigest(ticketLeafData(mockTickets(drawId)[n]))

\* C26: when calculateWinners has counted a winner for a draw whose
\* consolidation has run to its end, the winner's leaf is in a tree whose
\* root was submitted for the draw.
C26_WinnersAreCommitted ==
    \A k \in 1..Len(calcs) :
        (countedAWinner(k) /\ consolidationEnded(calcs[k].drawId))
            => committedFor(calcs[k].drawId)

----------------------------------------------------------------------------
(* EventIndexerService (src/src/services/EventIndexerService.ts): one      *)
(* instance, its callers (startIndexing, stopIndexing), the activations of *)
(* startMonitoringLoop and the chain.  A step runs from one await to the   *)
(* next; every block of the chain carries one contract event.  The awaits  *)
(* on processEvent inside a range are folded into the return of the        *)
(* range's query.                                                          *)

\* The chain's last block.
MaxChain == 3

\* blockchainConfig.indexer.maxBlockRange (INDEXER_MAX_BLOCK_RANGE), scaled
\* to the chain of the model.
maxBlockRange == 2

\* Two activations of startMonitoringLoop are followed.
LoopIds == {"loop1", "loop2"}

NoLoop == [pc |-> "none", start |-> 0, end |-> 0, toBlock |-> 0, from |-> 0, ranges |-> <<>>]

\* Math.min.
min(a, b) == IF a <= b THEN a ELSE b

\* The activation a call of startMonitoringLoop becomes.
nextLoop == IF loops["loop1"].pc = "none" THEN "loop1" ELSE "loop2"

started == {l \in LoopIds : loops[l].pc # "none"}

\* startMonitoringLoop from its while test to the first await of
\* processNewEvents: getBlockNumber with a contract, processEvent of the
\* mock event without one.
enterLoop(running) ==
    IF ~running THEN [NoLoop EXCEPT !.pc = "ended"]
    ELSE IF hasContract THEN [NoLoop EXCEPT !.pc = "getBlock"]
    ELSE [NoLoop EXCEPT !.pc = "mock"]

InitIndexer ==
    /\ isRunning = FALSE
    /\ currentBlock = 0
    /\ lastBlock = 0
    /\ latestBlock = 0
    /\ hasContract \in BOOLEAN
    /\ starts = 0
    /\ loops = [l \in LoopIds |-> NoLoop]
    /\ handledOk = {}
    /\ UtilIdle
    /\ SettlementIdle
    /\ TreeIdle
    /\ ControllerIdle

\* startIndexing up to its await of DbService.getLastProcessedBlock; a call
\* on a running indexer returns at once.
StartIndexing ==
    /\ IF isRunning
       THEN UNCHANGED <<isRunning, starts>>
       ELSE /\ starts + Cardinality(started) < Cardinality(LoopIds)
            /\ isRunning' = TRUE
            /\ starts' = starts + 1
    /\ UNCHANGED <<currentBlock, lastBlock, latestBlock, hasContract, loops, handledOk>>
    /\ UNCHANGED <<utilVars, settlementVars, treeVars, controllerVars>>

\* getLastProcessedBlock returns: currentBlock is set and
\* startMonitoringLoop is called, not awaited.
StartResumed ==
    /\ starts > 0
    /\ starts' = starts - 1
    /\ currentBlock' = lastBlock
    /\ loops' = [loops EXCEPT ![nextLoop] = enterLoop(isRunning)]
    /\ UNCHANGED <<isRunning, lastBlock, latestBlock, hasContract, handledOk>>
    /\ UNCHANGED <<utilVars, settlementVars, treeVars, controllerVars>>

\* getLastProcessedBlock throws: the catch of startIndexing resets
\* isRunning and rethrows.
StartFailed ==
    /\ starts > 0
    /\ starts' = starts - 1
    /\ isRunning' = FALSE
    /\ UNCHANGED <<currentBlock, lastBlock, latestBlock, hasContract, loops, handledOk>>
    /\ UNCHANGED <<utilVars, settlementVars, treeVars, controllerVars>>

\* stopIndexing.
StopIndexing ==
    /\ isRunning' = FALSE
    /\ UNCHANGED <<currentBlock, lastBlock, latestBlock, hasContract, starts, loops, handledOk>>
    /\ UNCHANGED <<utilVars, settlementVars, treeVars, controllerVars>>

\* The chain grows by a block.
NewBlock ==
    /\ latestBlock < MaxChain
    /\ latestBlock' = latestBlock + 1
    /\ UNCHANGED <<isRunning, currentBlock, lastBlock, hasContract, starts, loops, handledOk>>
    /\ UNCHANGED <<utilVars, settlementVars, treeVars, controllerVars>>

\* processNewEvents: getBlockNumber returns; with nothing new the call
\* returns and the loop sleeps, else the first range is queried.
BlockNumberReturned(l) ==
    /\ loops[l].pc = "getBlock"
    /\ IF latestBlock <= currentBlock
       THEN loops' = [loops EXCEPT ![l].pc = "sleep"]
       ELSE LET fromBlock == currentBlock + 1
                toBlock == latestBlock
            IN  loops' = [loops EXCEPT ![l] =
                    [pc |-> "query", start |-> fromBlock,
                     end |-> min(fromBlock + maxBlockRange - 1, toBlock),
                     toBlock |-> toBlock, from |-> fromBlock, ranges |-> <<>>]]
    /\ UNCHANGED <<isRunning, currentBlock, lastBlock, latestBlock, hasContract, starts,
                   handledOk>>
    /\ UNCHANGED <<utilVars, settlementVars, treeVars, controllerVars>>

\* processNewEvents: queryFilter(start, end) returns the events of the
\* range; each is handed to processEvent, whose exception is logged; then
\* currentBlock = end and saveLastProcessedBlock is awaited.
QueryReturned(l, failed) ==
    /\ loops[l].pc = "query"
    /\ failed \subseteq loops[l].start..loops[l].end
    /\ handledOk' = handledOk \cup ((loops[l].start..loops[l].end) \ failed)
    /\ currentBlock' = loops[l].end
    /\ loops' = [loops EXCEPT ![l].pc = "save",
                              ![l].ranges = Append(@, <<loops[l].start, loops[l].end>>)]
    /\ UNCHANGED <<isRunning, lastBlock, latestBlock, hasContract, starts>>
    /\ UNCHANGED <<utilVars, settlementVars, treeVars, controllerVars>>

\* processNewEvents: saveLastProcessedBlock returns; the next range is
\* queried, or the call returns and the loop sleeps.
Saved(l) ==
    /\ loops[l].pc = "save"
    /\ lastBlock' = loops[l].end
    /\ LET start == loops[l].end + 1
       IN  IF start <= loops[l].toBlock
           THEN loops' = [loops EXCEPT ![l].pc = "query",
                                       ![l].start = start,
                                       ![l].end = min(start + maxBlockRange - 1,
                                                      loops[l].toBlock)]
           ELSE loops' = [loops EXCEPT ![l].pc = "sleep"]
    /\ UNCHANGED <<isRunning, currentBlock, latestBlock, hasContract, starts, handledOk>>
    /\ UNCHANGED <<utilVars, settlementVars, treeVars, controllerVars>>

\* processNewEvents without a contract: processEvent of the mock event
\* returns; currentBlock += 1 and saveLastProcessedBlock is awaited.
MockHandled(l) ==
    /\ loops[l].pc = "mock"
    /\ currentBlock < MaxChain
    /\ currentBlock' = currentBlock + 1
    /\ loops' = [loops EXCEPT ![l].pc = "mockSave", ![l].end = currentBlock + 1]
    /\ UNCHANGED <<isRunning, lastBlock, latestBlock, hasContract, starts, handledOk>>
    /\ UNCHANGED <<utilVars, settlementVars, treeVars, controllerVars>>

\* processNewEvents without a contract: saveLastProcessedBlock returns.
MockSaved(l) ==
    /\ loops[l].pc = "mockSave"
    /\ lastBlock' = loops[l].end
    /\ loops' = [loops EXCEPT ![l].pc = "sleep"]
    /\ UNCHANGED <<isRunning, currentBlock, latestBlock, hasContract, starts, handledOk>>
    /\ UNCHANGED <<utilVars, settlementVars, treeVars, controllerVars>>

\* An await of processNewEvents rejects (getBlockNumber, queryFilter,
\* saveLastProcessedBlock, processEvent of the mock event): the exception
\* reaches the catch of the loop, which sleeps the longer time.
AwaitFailed(l) ==
    /\ loops[l].pc \in {"getBlock", "query", "save", "mock", "mockSave"}
    /\ loops' = [loops EXCEPT ![l].pc = "sleepLonger"]
    /\ UNCHANGED <<isRunning, currentBlock, lastBlock, latestBlock, hasContract, starts,
                   handledOk>>
    /\ UNCHANGED <<utilVars, settlementVars, treeVars, controllerVars>>

\* The sleep ends: the while test, and processNewEvents to its first await.
Wake(l) ==
    /\ loops[l].pc \in {"sleep", "sleepLonger"}
    /\ loops' = [loops EXCEPT ![l] = enterLoop(isRunning)]
    /\ UNCHANGED <<isRunning, currentBlock, lastBlock, latestBlock, hasContract, starts,
                   handledOk>>
    /\ UNCHANGED <<utilVars, settlementVars, treeVars, controllerVars>>

NextIndexer ==
    \/ StartIndexing
    \/ StartResumed
    \/ StartFailed
    \/ StopIndexing
    \/ NewBlock
    \/ \E l \in LoopIds : BlockNumberReturned(l)
    \/ \E l \in LoopIds : \E failed \in SUBSET (1..MaxChain) : QueryReturned(l, failed)
    \/ \E l \in LoopIds : Saved(l)
    \/ \E l \in LoopIds : MockHandled(l)
    \/ \E l \in LoopIds : MockSaved(l)
    \/ \E l \in LoopIds : AwaitFailed(l)
    \/ \E l \in LoopIds : Wake(l)

SpecIndexer == InitIndexer /\ [][NextIndexer]_vars

----------------------------------------------------------------------------
(* EventIndexerService: properties.                                        *)

\* The activations that are in the loop: called and not yet returned.
activeLoops == {l \in LoopIds : loops[l].pc \notin {"none", "ended"}}

\* C27: for every interleaving of startIndexing and stopIndexing at most
\* one monitoring loop is active while the indexer is running.
C27_AtMostOneLoop ==
    isRunning => Cardinality(activeLoops) <= 1

\* C28: every contract event in a block at or below the persisted last
\* processed block has been handled successfully.
C28_CheckpointBehindFailures ==
    hasContract => \A b \in 1..lastBlock : b \in handledOk

\* The ranges a call of processNewEvents has queried so far are contiguous,
\* start at the block after the call's currentBlock, span at most
\* maxBlockRange blocks each, and end at the latest block when the call
\* returns.
rangesInOrder(l) ==
    LET ranges == loops[l].ranges
    IN  /\ \A k \in 1..Len(ranges) :
              /\ ranges[k][1] <= ranges[k][2]
              /\ ranges[k][2] - ranges[k][1] + 1 <= maxBlockRange
              /\ ranges[k][1] = IF k = 1 THEN loops[l].from ELSE ranges[k - 1][2] + 1
        /\ loops[l].pc = "query" =>
              /\ loops[l].start = IF Len(ranges) = 0 THEN loops[l].from
                                  ELSE ranges[Len(ranges)][2] + 1
              /\ currentBlock = loops[l].start - 1
        /\ (loops[l].pc = "sleep" /\ Len(ranges) > 0) =>
              ranges[Len(ranges)][2] = loops[l].toBlock

\* A step of processNewEvents does not lower currentBlock, and the return
\* of saveLastProcessedBlock leaves the persisted block equal to it.
rangeStep ==
    /\ starts' = starts => currentBlock' >= currentBlock
    /\ \A l \in LoopIds :
          (loops[l].pc = "save" /\ loops'[l].pc \in {"query", "sleep"})
              => lastBlock' = currentBlock'

\* C29: with a contract the ranges queried by a call of processNewEvents
\* are contiguous, of at most maxBlockRange blocks, from currentBlock + 1 to
\* the latest block; currentBlock never decreases; after each range the
\* persisted block equals currentBlock; and when a query is awaited
\* currentBlock is the end of the last completed range.
C29_RangesAdvance ==
    /\ [](\A l \in LoopIds : rangesInOrder(l))
    /\ [][rangeStep]_vars

----------------------------------------------------------------------------
(* TicketController.validateTicketNumbers                                  *)
(* (src/src/controllers/TicketController.ts).  The numbers of a request    *)
(* body are JSON numbers, integers or not: the model carries each as twice *)
(* its value, so 3 stands for 1.5 and 30 for 15.                           *)

\* The positions of a selection the sample bodies change.
MaxBodyPosition == 4

\* Number.isInteger of a number carried as twice its value.
isInteger(h) == h % 2 = 0

\* The numbers of a body of integers.
wholeNumbers(hs) == [i \in 1..Len(hs) |-> hs[i] \div 2]

\* NumberPacking.validateNumbers on the numbers of a body: the range test
\* of either game rejects an element that is no integer, and an array it
\* accepts is an array of integers.
validateNumbersOfBody(hs, g) ==
    IF \E i \in 1..Len(hs) : ~isInteger(hs[i]) THEN FALSE
    ELSE validateNumbers(wholeNumbers(hs), g)

\* TicketController.validateNumbers: the errors it pushes when the codec
\* rejects the numbers.
controllerErrors(hs, g) ==
    IF g = LOTOFACIL
    THEN (IF Len(hs) # 15 THEN {"Lotofacil must have exactly 15 numbers"} ELSE {})
         \cup (IF \E i \in 1..Len(hs) : hs[i] < 2 * 1 \/ hs[i] > 2 * 25
               THEN {"Numbers must be between 1 and 25"} ELSE {})
         \cup (IF setSize(hs) # Len(hs) THEN {"Numbers must be unique"} ELSE {})
    ELSE IF g = SUPERSETE
    THEN (IF Len(hs) # 7 THEN {"SuperSete must have exactly 7 digits"} ELSE {})
         \cup (IF \E i \in 1..Len(hs) : hs[i] < 2 * 0 \/ hs[i] > 2 * 9
               THEN {"Digits must be between 0 and 9"} ELSE {})
    ELSE {}

\* TicketController.validateNumbers (private): packed stays undefined unless
\* the codec accepts the numbers and packs them.
controllerValidateNumbers(hs, g) ==
    LET isValid == validateNumbersOfBody(hs, g)
        rejected == IF ~isValid THEN controllerErrors(hs, g) ELSE {}
        packing == IF isValid THEN packNumbers(wholeNumbers(hs), g) ELSE Raised("")
        errors == rejected \cup (IF isValid /\ ~packing.ok THEN {"Error packing numbers"} ELSE {})
    IN  [isValid |-> errors = {},
         errors |-> errors,
         packed |-> [defined |-> isValid /\ packing.ok,
                     value |-> IF isValid /\ packing.ok THEN packing.value ELSE 0]]

\* TicketController.validateTicketNumbers: the response to a body.
validateTicketNumbers(b) ==
    IF ~b.hasNumbers
    THEN [status |-> 400, code |-> "INVALID_NUMBERS"]
    ELSE IF b.game # LOTOFACIL /\ b.game # SUPERSETE
    THEN [status |-> 400, code |-> "INVALID_GAME_TYPE"]
    ELSE LET validation == controllerValidateNumbers(b.numbers, b.game)
         IN  [status |-> 200, code |-> "",
              isValid |-> validation.isValid,
              errors |-> validation.errors,
              packedNumbers |-> IF validation.isValid THEN validation.packed
                                ELSE [defined |-> TRUE, value |-> 0],
              packedIsNull |-> ~validation.isValid]

\* Selections of the two games, as carried in a body.
lotofacilBody == [i \in 1..15 |-> 2 * i]
superseteBody == [i \in 1..7 |-> 2 * (i - 1)]

\* sel with the number at position p replaced by v.
withNumber(sel, p, v) == [i \in 1..Len(sel) |-> IF i = p THEN v ELSE sel[i]]

\* The sample bodies: a valid selection with one number replaced (by a
\* fraction in or out of range, an integer in or out of range, a
\* duplicate), a selection one number short, an unknown game, no numbers.
BodySamples ==
    {[hasNumbers |-> TRUE, numbers |-> withNumber(lotofacilBody, p, v), game |-> LOTOFACIL] :
        p \in 1..MaxBodyPosition, v \in {0, 1, 2, 3, 32, 33, 50, 51, 52}}
    \cup {[hasNumbers |-> TRUE, numbers |-> withNumber(superseteBody, p, v), game |-> SUPERSETE] :
        p \in 1..MaxBodyPosition, v \in {-2, -1, 0, 1, 18, 19, 20}}
    \cup {[hasNumbers |-> TRUE, numbers |-> SubSeq(lotofacilBody, 1, 14), game |-> LOTOFACIL],
          [hasNumbers |-> TRUE, numbers |-> SubSeq(superseteBody, 1, 6), game |-> SUPERSETE],
          [hasNumbers |-> TRUE, numbers |-> superseteBody, game |-> 2],
          [hasNumbers |-> FALSE, numbers |-> <<>>, game |-> LOTOFACIL]}

InitController ==
    /\ body \in BodySamples
    /\ response = NoResponse
    /\ UtilIdle
    /\ SettlementIdle
    /\ TreeIdle
    /\ IndexerIdle

\* POST of the body: validateTicketNumbers answers.
ValidateTicketNumbers ==
    /\ response = NoResponse
    /\ response' = validateTicketNumbers(body)
    /\ UNCHANGED body
    /\ UNCHANGED <<utilVars, settlementVars, treeVars, indexerVars>>

NextController == ValidateTicketNumbers

SpecController == InitController /\ [][NextController]_vars

\* C30: for a supported game the endpoint answers isValid = true exactly
\* when NumberPacking.validateNumbers accepts the numbers, and with
\* isValid = true it answers the value packNumbers gives them.
C30_VerdictAgreesWithCodec ==
    response.status = 200 =>
        /\ response.isValid <=> validateNumbersOfBody(body.numbers, body.game)
        /\ response.isValid =>
              /\ response.packedNumbers.defined
              /\ packNumbers(wholeNumbers(body.numbers), body.game).ok
              /\ response.packedNumbers.value
                    = packNumbers(wholeNumbers(body.numbers), body.game).value

====
